---- MODULE Spec2Model ----
(***************************************************************************)
(* Email Security Scanner (Chromium extension): the request-orchestration  *)
(* layer between the page-embedded Client Request Queue (the message       *)
(* queue of unnamed/part_006, lines 101-254), the Background Orchestrator  *)
(* (background.ts, lines 194-559: the isProcessing revision) and the       *)
(* Inference Worker Proxy running in the offscreen document (popup.ts,     *)
(* lines 121-467).  Line numbers in the comments below are lines of these  *)
(* files.                                                                  *)
(*                                                                         *)
(* Each execution context is single-threaded: one action is one event-loop *)
(* task (a listener, a timer callback, or the resumption of an async       *)
(* function after an await) together with the microtasks it triggers.      *)
(*                                                                         *)
(* Timing.  Port messages, model loads and inferences take any amount of   *)
(* time (a load or an inference can outlast the 60 s cleanup delay).  The  *)
(* short steps of the orchestrator and of the worker proxy (a 0 ms         *)
(* timeout, a 100 ms wait-for-model interval whose condition holds, a      *)
(* browser API call, the memory probe, a control message) end before a     *)
(* pending 60 s cleanup timeout or 5 s memory poll fires.                  *)
(***************************************************************************)
EXTENDS Naturals, Sequences, FiniteSets

\* ------------------------------------------------------------- bounds
\* submissions (sendEmailContent calls) over all client queues
MaxRequests == 2
\* channel losses and clearMessageHandlers calls over all client queues
MaxDrops == 1

\* the client contexts (tabs), each with its own Client Request Queue
Clients == {1, 2}

\* ------------------------------------------------- program constants
baseModelSizeMB == 2989
minContextSizeMB == 211
safetyMarginMB == 512
totalRequiredMB == baseModelSizeMB + minContextSizeMB + safetyMarginMB

\* probed available memory: just below, and exactly at, the requirement
MemLevels == {totalRequiredMB - 1, totalRequiredMB}

NoPort == <<0, 0>>
Null == 0
\* no control message on its way
NoCtl == [type |-> "none", requiredRAMMB |-> Null]

VARIABLES
  sw,        \* Background Orchestrator: the module-level state of background.ts
  off,       \* offscreen document: existence, worker-proxy state, messages to it
  mem,       \* available memory as chrome.system.memory.getInfo reports it
  cq,        \* per client: the module-level state of part_006
  toBg,      \* request messages posted on a port, not yet delivered
  toClient,  \* response messages posted on a port, not yet delivered
  openPorts, \* ports that are connected
  gen,       \* handler ids and request ids used, channel events so far,
             \* the number of submissions the run allows, and whether the
             \* extension context of the pages has been invalidated
  hist,      \* observer: what happened so far (no operation reads it)
  eng,       \* worker proxy: one processInference call (popup.ts 326-424)
  page,      \* content script: email containers, badges and the IndexedDB
             \* store of analyzed emails (content.ts, db.ts)
  cr,        \* createOffscreenDocument under concurrent calls
             \* (background.ts 272-306)
  store,     \* the IndexedDB store under a sequence of db.ts calls
  cfg,       \* worker proxy: one initializeWllama call, from the memory
             \* probe to the model load (popup.ts 167-307)
  wctx       \* worker proxy: one document receiving several 'initialize'
             \* messages (popup.ts 124-127, 231-308, 430-436)

vars == <<sw, off, mem, cq, toBg, toClient, openPorts, gen, hist, eng, page, cr, store, cfg, wctx>>

\* the orchestrator, the worker's load state, the client queues and channels
sysvars == <<sw, off, mem, cq, toBg, toClient, openPorts, gen, hist>>

\* ------------------------------------------------------ response shapes
\* background.ts 407-417
sendInsufficientResourcesError(port, requestId) ==
  [port |-> port, requestId |-> requestId, responseType |-> "error",
   brief |-> "insufficient_resources", type |-> "unknown_threat", confidence |-> 0]

\* background.ts 419-429
sendErrorResponse(port, requestId) ==
  [port |-> port, requestId |-> requestId, responseType |-> "error",
   brief |-> "error_message", type |-> "unknown_threat", confidence |-> 0]

\* background.ts 396-401: the worker's result under the request's own id
completionResponse(port, requestId, result) ==
  [port |-> port, requestId |-> requestId, responseType |-> "completion",
   brief |-> "analysis", type |-> result.type, confidence |-> result.confidence]

\* part_006 221-227: the response a failed dispatch hands to the handler
processingError ==
  [port |-> NoPort, requestId |-> 0, responseType |-> "error",
   brief |-> "processing_error", type |-> "unknown_threat", confidence |-> 0]

\* results the worker proxy can return (confidence in hundredths)
Results == {[type |-> "safe", confidence |-> 99]}

\* no result (null, or nothing displayed)
NoResult == [type |-> "none", confidence |-> 0]

\* ------------------------------------------------ orchestrator helpers
\* A context threads the orchestrator state through one event-loop task:
\*   s    the orchestrator state
\*   out  the port.postMessage calls made, in order
\*   ini  whether chrome.runtime.sendMessage({type: 'initialize'}) was called
\*   done the requests whose processRequest settled
Ctx(s) == [s |-> s, out |-> <<>>, ini |-> FALSE, done |-> {}]

SetPc(active, a, pc) == (active \ {a}) \cup {[a EXCEPT !.pc = pc]}

\* a processRequest whose settling neither clears isProcessing nor schedules
\* processQueue again (no .finally)
SettleAndStop(ctx, a, resp) ==
  [ctx EXCEPT !.s.active = @ \ {a},
              !.out = Append(@, resp),
              !.done = @ \cup {a.requestId}]

\* a processRequest that answers on the port of the request queued last
\* (one port variable shared by all requests)
SettleOnLatestPort(ctx, a, resp) ==
  LET q == ctx.s.requestsQueue
      port == IF q = <<>> THEN resp.port ELSE q[Len(q)].port
  IN [ctx EXCEPT !.s.active = @ \ {a},
                 !.s.isProcessing = FALSE,
                 !.s.pqTimers = @ + 1,
                 !.out = Append(@, [resp EXCEPT !.port = port]),
                 !.done = @ \cup {a.requestId}]

\* processRequest settles: the response (if any) was posted, then the
\* .finally of processQueue runs (background.ts 337-341)
Settle(ctx, a, resp) ==
  [ctx EXCEPT !.s.active = @ \ {a},
              !.s.isProcessing = FALSE,
              !.s.pqTimers = @ + 1,
              !.out = Append(@, resp),
              !.done = @ \cup {a.requestId}]

\* background.ts 319-322 and 382-385: if (cleanupTimer) { clearTimeout(
\* cleanupTimer); cleanupTimer = null }.  The timeout the handle refers to
\* is cancelled if it is pending.
clearCleanupTimer(s) ==
  [s EXCEPT !.cleanupTimer = FALSE,
            !.cleanupTimeouts = IF s.cleanupTimer THEN @ - 1 ELSE @]

\* background.ts 325: cleanupTimer = setTimeout(cleanupOffscreenDocument,
\* CLEANUP_DELAY); wasPending: the call cancelled a pending timeout before
armCleanupTimer(s, wasPending) ==
  [s EXCEPT !.cleanupTimer = TRUE,
            !.cleanupTimeouts = @ + 1,
            !.rearmed = @ \/ wasPending]

\* background.ts 374-390: after the wait for the model
AfterWait(ctx, a) ==
  IF ctx.s.hasInsufficientResources
  THEN Settle(ctx, a, sendInsufficientResourcesError(a.port, a.requestId))
  ELSE [ctx EXCEPT !.s = [clearCleanupTimer(@) EXCEPT !.active = SetPc(@, a, "inference")]]

\* background.ts 361-372: wait for the model or the insufficient-resources signal
AfterCreate(ctx, a) ==
  IF ~ctx.s.isModelLoaded /\ ~ctx.s.hasInsufficientResources
  THEN [ctx EXCEPT !.s.active = SetPc(@, a, "waitModel")]
  ELSE AfterWait(ctx, a)

\* background.ts 272-275: createOffscreenDocument up to its first await
createOffscreenDocument(ctx, a) ==
  IF ctx.s.offscreenDocumentCreating
  THEN AfterCreate(ctx, a)
  ELSE [ctx EXCEPT !.s.offscreenDocumentCreating = TRUE,
                   !.s.active = SetPc(@, a, "crCheck")]

\* processRequest without the early return on hasInsufficientResources
processRequestUnchecked(ctx, a) ==
  IF ~ctx.s.isOffscreenDocumentReady
  THEN createOffscreenDocument(ctx, a)
  ELSE AfterCreate(ctx, a)

\* background.ts 346-359: processRequest up to its first await
processRequest(ctx, a) ==
  IF ctx.s.hasInsufficientResources
  THEN Settle(ctx, a, sendInsufficientResourcesError(a.port, a.requestId))
  ELSE IF ~ctx.s.isOffscreenDocumentReady
       THEN createOffscreenDocument(ctx, a)
       ELSE AfterCreate(ctx, a)

\* processQueue without the isProcessing guard: every call pulls a request
processQueueUnguarded(ctx) ==
  LET c1 == [ctx EXCEPT !.s = clearCleanupTimer(@)] IN
  IF c1.s.requestsQueue = <<>>
  THEN [c1 EXCEPT !.s = armCleanupTimer(@, ctx.s.cleanupTimer)]
  ELSE LET nextRequest == Head(c1.s.requestsQueue)
           a == [port |-> nextRequest.port,
                 requestId |-> nextRequest.requestId, pc |-> "start"]
           c2 == [c1 EXCEPT !.s.requestsQueue = Tail(@),
                            !.s.isProcessing = TRUE,
                            !.s.active = @ \cup {a}]
       IN processRequest(c2, a)

\* a processQueue that pulls the request that arrived last
processQueueNewestFirst(ctx) ==
  LET c1 == [ctx EXCEPT !.s = clearCleanupTimer(@)] IN
  IF c1.s.requestsQueue = <<>>
  THEN [c1 EXCEPT !.s = armCleanupTimer(@, ctx.s.cleanupTimer)]
  ELSE IF c1.s.isProcessing
       THEN c1
       ELSE LET n == Len(c1.s.requestsQueue)
                nextRequest == c1.s.requestsQueue[n]
                a == [port |-> nextRequest.port,
                      requestId |-> nextRequest.requestId, pc |-> "start"]
                c2 == [c1 EXCEPT !.s.requestsQueue = SubSeq(@, 1, n - 1),
                                 !.s.isProcessing = TRUE,
                                 !.s.active = @ \cup {a}]
            IN processRequest(c2, a)

\* a processQueue that arms the cleanup timeout without cancelling the
\* pending one
processQueueNoClear(ctx) ==
  IF ctx.s.requestsQueue = <<>>
  THEN [ctx EXCEPT !.s = armCleanupTimer(@, FALSE)]
  ELSE LET c1 == [ctx EXCEPT !.s = clearCleanupTimer(@)] IN
       IF c1.s.isProcessing
       THEN c1
       ELSE LET nextRequest == Head(c1.s.requestsQueue)
                a == [port |-> nextRequest.port,
                      requestId |-> nextRequest.requestId, pc |-> "start"]
                c2 == [c1 EXCEPT !.s.requestsQueue = Tail(@),
                                 !.s.isProcessing = TRUE,
                                 !.s.active = @ \cup {a}]
            IN processRequest(c2, a)

\* background.ts 318-343
processQueue(ctx) ==
  LET c1 == [ctx EXCEPT !.s = clearCleanupTimer(@)] IN
  IF c1.s.requestsQueue = <<>>
  THEN [c1 EXCEPT !.s = armCleanupTimer(@, ctx.s.cleanupTimer)]
  ELSE IF c1.s.isProcessing
       THEN c1
       ELSE LET nextRequest == Head(c1.s.requestsQueue)
                a == [port |-> nextRequest.port,
                      requestId |-> nextRequest.requestId, pc |-> "start"]
                c2 == [c1 EXCEPT !.s.requestsQueue = Tail(@),
                                 !.s.isProcessing = TRUE,
                                 !.s.active = @ \cup {a}]
            IN processRequest(c2, a)

\* background.ts 542-547
stopMemoryPolling(ctx) ==
  [ctx EXCEPT !.s.memoryPollingTimer = FALSE,
              !.s.pollIntervals = IF ctx.s.memoryPollingTimer THEN @ - 1 ELSE @]

\* background.ts 507-515: clears the interval the handle refers to and
\* starts a new one
startMemoryPolling(ctx) ==
  [ctx EXCEPT !.s.memoryPollingTimer = TRUE,
              !.s.pollIntervals = (IF ctx.s.memoryPollingTimer THEN @ - 1 ELSE @) + 1,
              !.s.pollStarts = IF @ < 2 THEN @ + 1 ELSE @]

\* ------------------------------- worker proxy: processInference
\* popup.ts 327
maxRetries == 1

\* An error message is the set of the words in it, so that
\* message.includes(word) is membership.
ModelNotLoaded == {"Model", "not", "loaded"}

\* messages wllama.tokenize, formatChat and createCompletion reject with
EngineErrors == {{"Running", "out", "of", "context", "cache"}, {"engine", "aborted"}}

\* popup.ts 135: the alternatives of the grammar's rule 'threat'
threat ==
  {"safe", "spam", "unknown_threat", "malware", "data_exfiltration", "phishing",
   "scam", "extortion"}

\* popup.ts 137: texts of the grammar's rule 'confidence', one or two of
\* each alternative: "0" | "0." [0-9]{1,2} | "1" | "1.0"
confidence == {"0", "0.5", "0.05", "0.99", "1", "1.0"}

\* popup.ts 133: the text of the grammar's rule 'root' (no whitespace, the
\* string "ok")
root(t, c) ==
  "{\"brief_analysis\":\"ok\",\"type\":\"" \o t \o "\",\"confidence\":" \o c \o "}"

\* every text the grammar lets the engine complete
GrammarOutputs == {root(t, c) : t \in threat, c \in confidence}

\* the value of a JSON number with at most two decimals, in hundredths
Number(c) ==
  CASE c = "0" -> 0
    [] c = "0.5" -> 50
    [] c = "0.05" -> 5
    [] c = "0.99" -> 99
    [] c = "1" -> 100
    [] c = "1.0" -> 100

\* completion texts: a well-formed object, a text that ends inside a string,
\* and a text with a character JSON does not allow there
WellFormed == "{\"brief_analysis\":\"ok\",\"type\":\"safe\",\"confidence\":0.99}"
CutShort == "{\"brief_analysis\":\"ok\",\"type\":\"sa"
StrayCharacter == "{\"brief_analysis\":\"ok\",\"type\":safe}"
Completions == GrammarOutputs \cup {WellFormed, CutShort, StrayCharacter}

\* popup.ts 386: JSON.parse returns the value of a well-formed text and
\* throws a SyntaxError otherwise (confidence in hundredths)
JSONparse(completion) ==
  CASE completion \in GrammarOutputs ->
         LET tc == CHOOSE tc \in threat \X confidence : completion = root(tc[1], tc[2])
         IN [threw |-> FALSE,
             value |-> [type |-> tc[1], confidence |-> Number(tc[2])],
             message |-> {}]
    [] completion = CutShort ->
         [threw |-> TRUE, value |-> NoResult, message |-> {"Unterminated", "string", "in", "JSON"}]
    [] completion = StrayCharacter ->
         [threw |-> TRUE, value |-> NoResult, message |-> {"Unexpected", "token", "is", "not", "valid", "JSON"}]

\* popup.ts 346-351 and 398-403: the two results attemptInference makes up
TooLongResult == [type |-> "unknown_threat", confidence |-> 50]

\* popup.ts 446-450: the result sent along with success=false
ErrorResult == [type |-> "unknown_threat", confidence |-> 0]

NoReply == [success |-> FALSE, result |-> NoResult]

\* popup.ts 125-129 and 326-328: the state one processInference call works
\* with.  pc is the await the call is suspended at (idle, tokenize,
\* formatChat, completion) or replied once sendResponse was called.
\*   promptTokens  what getTokenCount(request.prompt) returns
\*   reply         the argument of sendResponse
\*   kv            the engine's session state: prefix when it holds no more
\*                 than the fixed instructions, grown when createCompletion
\*                 has added tokens to it
\*   attempts      observer: per attemptInference call, whether it called
\*                 createCompletion, whether JSON.parse threw in it, and how
\*                 it ended (running, returned, threw)
engInit ==
  [pc |-> "idle", isModelLoaded |-> FALSE, n_ctx |-> Null,
   tokensToKeepForSystemPrompt |-> 0, promptTokens |-> 0,
   retryCount |-> 0, reply |-> NoReply, kv |-> "prefix", attempts |-> <<>>]

\* the current attemptInference call ends
EndAttempt(e, outcome) ==
  [e EXCEPT !.attempts[Len(e.attempts)].outcome = outcome]

\* popup.ts 441: processInference(...).then(result => sendResponse(...))
Resolve(e, result) ==
  [EndAttempt(e, "returned") EXCEPT !.pc = "replied",
                                    !.reply = [success |-> TRUE, result |-> result]]

\* popup.ts 442-452: processInference(...).catch(error => sendResponse(...))
Reject(e) ==
  [e EXCEPT !.pc = "replied", !.reply = [success |-> FALSE, result |-> ErrorResult]]

RECURSIVE attemptInference(_)

\* a processInference that surfaces the first error (no retry)
processInferenceCatchNoRetry(e) == Reject(e)

\* popup.ts 411-423: attemptInference threw
processInferenceCatch(e) ==
  IF e.retryCount < maxRetries
  THEN attemptInference([e EXCEPT !.retryCount = @ + 1])
  ELSE Reject(e)

\* popup.ts 387-406: the catch block of attemptInference
attemptCatch(e, message) ==
  IF \E word \in {"context", "token", "overflow", "size"} : word \in message
  THEN Resolve(e, TooLongResult)
  ELSE processInferenceCatch(EndAttempt(e, "threw"))

\* popup.ts 330-340 and 314-320: attemptInference up to its first await
attemptInference(e) ==
  LET e1 == [e EXCEPT !.attempts = Append(@, [completion |-> FALSE, parse |-> FALSE,
                                               outcome |-> "running"])]
  IN IF ~e1.isModelLoaded
     THEN attemptCatch(e1, ModelNotLoaded)
     ELSE [e1 EXCEPT !.pc = "tokenize"]

\* popup.ts 339: currentModelConfig?.n_ctx || 4096
contextSize(e) == IF e.n_ctx = Null THEN 4096 ELSE e.n_ctx

\* context sizes getOptimalModelConfig yields (popup.ts 214-215), token
\* counts of the fixed instructions and of a prompt
ContextSizes == {2048, 4096}
SystemPromptTokens == {1997, 1998}
PromptTokens == {1, 2, 3000}

\* popup.ts 438-441: an 'inference' message arrives at the worker proxy
InferenceMessage(loaded, n_ctx, keep, tokens) ==
  /\ eng.pc \in {"idle", "replied"}
  /\ eng' = attemptInference([engInit EXCEPT !.isModelLoaded = loaded,
                                             !.n_ctx = n_ctx,
                                             !.tokensToKeepForSystemPrompt = keep,
                                             !.promptTokens = tokens,
                                             !.kv = eng.kv])
  /\ UNCHANGED <<sysvars, page, cr, store, cfg, wctx>>

\* popup.ts 340-354: wllama.tokenize settled; message is {} when it resolved
TokenizeSettles(message) ==
  /\ eng.pc = "tokenize"
  /\ eng' = IF message # {} THEN attemptCatch(eng, message)
            ELSE LET tokens == eng.promptTokens
                     remainingTokens == contextSize(eng) - eng.tokensToKeepForSystemPrompt
                 IN IF remainingTokens <= 50
                    THEN Resolve(eng, TooLongResult)
                    ELSE [eng EXCEPT !.pc = "formatChat"]
  /\ UNCHANGED <<sysvars, page, cr, store, cfg, wctx>>

\* popup.ts 356-376: wllama.formatChat settled; createCompletion is called
FormatChatSettles(message) ==
  /\ eng.pc = "formatChat"
  /\ eng' = IF message # {} THEN attemptCatch(eng, message)
            ELSE [eng EXCEPT !.pc = "completion",
                             !.attempts[Len(eng.attempts)].completion = TRUE]
  /\ UNCHANGED <<sysvars, page, cr, store, cfg, wctx>>

\* popup.ts 379: wllama.kvRemove(tokensToKeepForSystemPrompt, -1)
kvRemove(e) == [e EXCEPT !.kv = "prefix"]

\* popup.ts 364-386: wllama.createCompletion rejected, having added tokens
\* to the session (grew) or not
CompletionRejects(message, grew) ==
  /\ eng.pc = "completion"
  /\ eng' = attemptCatch([eng EXCEPT !.kv = IF grew THEN "grown" ELSE @], message)
  /\ UNCHANGED <<sysvars, page, cr, store, cfg, wctx>>

\* popup.ts 364-386: wllama.createCompletion resolved with a text
CompletionSettles(completion) ==
  /\ eng.pc = "completion"
  /\ LET parsed == JSONparse(completion)
         e1 == kvRemove([eng EXCEPT !.kv = "grown"])
     IN eng' = IF parsed.threw
               THEN attemptCatch([e1 EXCEPT !.attempts[Len(e1.attempts)].parse = TRUE],
                                 parsed.message)
               ELSE Resolve(e1, parsed.value)
  /\ UNCHANGED <<sysvars, page, cr, store, cfg, wctx>>

\* background.ts 392-404: what the orchestrator posts for the reply
inferenceAnswer(port, requestId, response) ==
  IF response.success THEN completionResponse(port, requestId, response.result)
  ELSE sendErrorResponse(port, requestId)

\* ------------------------------------- content script and its cache
\* the email containers (div.adn.ads) the page can show
Containers == {1, 2}

\* bodies of emails as the page shows them
Bodies == {"win  a prize", "win a prize", "see you"}
NoBody == "none"

\* content.ts 117-124: runs of spaces and tabs become one space
normalizeWhitespace(text) == IF text = "win  a prize" THEN "win a prize" ELSE text

\* content.ts 126-133
extractEmailContent(body) == [body |-> normalizeWhitespace(body)]

\* content.ts 135-141: the SHA-256 digest of the serialized content
hashContent(content) == <<"sha256", content.body>>

Hashes == {hashContent(extractEmailContent(b)) : b \in Bodies}
NoHash == <<"none", "none">>

\* content.ts 87: the badge addLoadingBadge shows
loadingBadge == [type |-> "loading", confidence |-> 0]

\* content.ts 148-152: the badge of an error response
errorResult == [type |-> "error", confidence |-> 0]

\* the responses a handler can be invoked with: a completion of the
\* orchestrator, its two error responses, and the queue's own
Responses ==
  {completionResponse(NoPort, Null, r) : r \in Results} \cup
  {sendErrorResponse(NoPort, Null), sendInsufficientResourcesError(NoPort, Null),
   processingError}

\* content.ts 6-7 and db.ts 3-6.
\*   content[k]  body of container k, NoBody while the page does not show it
\*   at[k]       where the processing of container k is suspended: hash
\*               (hashContent), lookup (getAnalyzedEmail), analyze (the
\*               handler passed to sendEmailContent), store
\*               (storeAnalyzedEmail), or idle
\*   hash[k], result[k]  locals of the processing of container k
\*   badge[k]    NoResult, loadingBadge, or the result displayed
\*   response[k] the responseType the handler of container k was invoked
\*               with, "none" before
\*   db          the object store: hash -> stored result, NoResult for absent
\*   clearing    a clearAnalyzedEmails call of the 'clearCache' listener has
\*               not settled
\*   clears      'clearCache' messages received so far
\*   sent        observer: containers in the order of the sendEmailContent calls
\*   invoked     observer: containers whose request the engine completed
pageInit ==
  [content |-> [k \in Containers |-> NoBody],
   processedElements |-> {},
   at |-> [k \in Containers |-> "idle"],
   hash |-> [k \in Containers |-> NoHash],
   result |-> [k \in Containers |-> NoResult],
   badge |-> [k \in Containers |-> NoResult],
   response |-> [k \in Containers |-> "none"],
   db |-> [h \in Hashes |-> NoResult],
   clearing |-> FALSE, clears |-> 0,
   sent |-> <<>>, invoked |-> <<>>]

\* the environment: the page shows a new email container
EmailAppears(k, body) ==
  /\ page.content[k] = NoBody
  /\ page' = [page EXCEPT !.content[k] = body]
  /\ UNCHANGED <<sysvars, eng, cr, store, cfg, wctx>>

\* content.ts 84-96: handleEmailChanges reaches an unprocessed container.
\* After a 'clearCache' a container is observed again; here only once its
\* earlier processing has ended.
handleEmailChanges(k) ==
  /\ page.content[k] # NoBody
  /\ k \notin page.processedElements
  /\ page.at[k] = "idle"
  /\ page' = [page EXCEPT !.processedElements = @ \cup {k},
                          !.badge[k] = loadingBadge,
                          !.response[k] = "none",
                          !.at[k] = "hash"]
  /\ UNCHANGED <<sysvars, eng, cr, store, cfg, wctx>>

\* content.ts 96-97: hashContent settled, getAnalyzedEmail is called
HashSettles(k) ==
  /\ page.at[k] = "hash"
  /\ page' = [page EXCEPT !.hash[k] = hashContent(extractEmailContent(page.content[k])),
                          !.at[k] = "lookup"]
  /\ UNCHANGED <<sysvars, eng, cr, store, cfg, wctx>>

\* content.ts 143-146: analyzeEmail hands the email and its handler to
\* sendEmailContent
analyzeEmail(p, k) ==
  [p EXCEPT !.at[k] = "analyze", !.sent = Append(@, k)]

\* how a call of db.ts ends: its request succeeded (done); initDB rejected
\* and the catch block swallowed it (unopened); its request failed and the
\* promise rejected (rejected)
DbOutcomes == {"done", "unopened", "rejected"}

\* db.ts 32-56: what getAnalyzedEmail resolves with
getAnalyzedEmail(db, hash, outcome) ==
  IF outcome = "done" THEN db[hash] ELSE NoResult

\* content.ts 97-104 and db.ts 32-56: getAnalyzedEmail settled. When it
\* rejects, the catch of handleEmailChanges (106-108) ends the pass and the
\* container keeps its loading badge.
LookupSettles(k, outcome) ==
  /\ page.at[k] = "lookup"
  /\ LET storedResult == getAnalyzedEmail(page.db, page.hash[k], outcome)
     IN page' = IF outcome = "rejected"
                THEN [page EXCEPT !.at[k] = "idle"]
                ELSE IF storedResult # NoResult
                     THEN [page EXCEPT !.badge[k] = storedResult, !.at[k] = "idle"]
                     ELSE analyzeEmail(page, k)
  /\ UNCHANGED <<sysvars, eng, cr, store, cfg, wctx>>

\* a handler that stores whatever response it is invoked with
HandlerInvokedStoresAll(k, response) ==
  /\ page.at[k] = "analyze"
  /\ page' = [page EXCEPT !.result[k] = [type |-> response.type,
                                         confidence |-> response.confidence],
                          !.at[k] = "store",
                          !.response[k] = response.responseType,
                          !.invoked = Append(@, k)]
  /\ UNCHANGED <<sysvars, eng, cr, store, cfg, wctx>>

\* content.ts 146-175: the handler analyzeEmail passes to sendEmailContent
analyzeEmailHandler(p, k, response) ==
  IF response.responseType = "error"
  THEN [p EXCEPT !.badge[k] = errorResult, !.at[k] = "idle",
                 !.response[k] = response.responseType]
  ELSE [p EXCEPT !.result[k] = [type |-> response.type,
                                confidence |-> response.confidence],
                 !.at[k] = "store",
                 !.response[k] = response.responseType,
                 !.invoked = Append(@, k)]

\* content.ts 146-175: the Client Request Queue invokes the handler of
\* container k
HandlerInvoked(k, response) ==
  /\ page.at[k] = "analyze"
  /\ page' = analyzeEmailHandler(page, k, response)
  /\ UNCHANGED <<sysvars, eng, cr, store, cfg, wctx>>

\* db.ts 59-78: the object store after storeAnalyzedEmail(hash, result)
storeAnalyzedEmail(db, hash, result, outcome) ==
  IF outcome = "done" THEN [db EXCEPT ![hash] = result] ELSE db

\* a clearAnalyzedEmails that removes nothing
clearAnalyzedEmailsKeeps(db, outcome) == db

\* db.ts 81-100: the object store after clearAnalyzedEmails()
clearAnalyzedEmails(db, outcome) ==
  IF outcome = "done" THEN [h \in DOMAIN db |-> NoResult] ELSE db

\* content.ts 165-173 and db.ts 59-78: storeAnalyzedEmail settled; the badge
\* is displayed whether or not the put succeeded
StoreSettles(k, outcome) ==
  /\ page.at[k] = "store"
  /\ page' = [page EXCEPT !.db = storeAnalyzedEmail(@, page.hash[k], page.result[k], outcome),
                          !.badge[k] = page.result[k],
                          !.at[k] = "idle"]
  /\ UNCHANGED <<sysvars, eng, cr, store, cfg, wctx>>

\* 'clearCache' messages the page receives
MaxClears == 1

\* content.ts 14-21: the 'clearCache' listener removes every badge and
\* calls clearAnalyzedEmails
clearCache ==
  /\ page.clears < MaxClears
  /\ ~page.clearing
  /\ page' = [page EXCEPT !.badge = [k \in Containers |-> NoResult],
                          !.clearing = TRUE,
                          !.clears = @ + 1]
  /\ UNCHANGED <<sysvars, eng, cr, store, cfg, wctx>>

\* content.ts 22-32 and db.ts 81-100: clearAnalyzedEmails settled. When it
\* resolved, every container counts as unprocessed again and
\* clearMessageHandlers discards the handlers waiting in the
\* Client Request Queue, which are never invoked.
ClearSettles(outcome) ==
  /\ page.clearing
  /\ LET p == [page EXCEPT !.db = clearAnalyzedEmails(@, outcome),
                           !.clearing = FALSE]
     IN page' = IF outcome = "rejected" THEN p
                ELSE [p EXCEPT !.processedElements = {},
                               !.at = [k \in Containers |->
                                         IF @[k] = "analyze" THEN "idle" ELSE @[k]]]
  /\ UNCHANGED <<sysvars, eng, cr, store, cfg, wctx>>

\* ------------------ an email's way from the worker proxy into the cache
\* containers whose handler waits for its response
Waiting == {k \in Containers : page.at[k] = "analyze"}

\* the place of container k's latest request among the sendEmailContent calls
Sent(k) == CHOOSE i \in 1..Len(page.sent) :
             page.sent[i] = k /\ \A j \in (i + 1)..Len(page.sent) : page.sent[j] # k

\* the container whose request the orchestrator processes: requests are
\* forwarded one at a time in the order they were sent
Oldest == CHOOSE k \in Waiting : \A j \in Waiting : Sent(k) <= Sent(j)

\* background.ts 385-390, popup.ts 438-441: the orchestrator forwards the
\* oldest waiting request to the worker proxy
InferenceRequested(loaded, n_ctx, keep, tokens) ==
  /\ Waiting # {}
  /\ eng.pc = "idle"
  /\ InferenceMessage(loaded, n_ctx, keep, tokens)

\* a processRequest that answers every reply of the worker with the error
\* response
WorkerRepliedAsError(k) ==
  /\ eng.pc = "replied"
  /\ Waiting # {} /\ k = Oldest
  /\ page' = analyzeEmailHandler(page, k, sendErrorResponse(NoPort, Null))
  /\ eng' = [engInit EXCEPT !.kv = eng.kv]
  /\ UNCHANGED <<sysvars, cr, store, cfg, wctx>>

\* background.ts 392-404, part_006 115-141, content.ts 146-175: the worker
\* replied; processRequest posts the response and the queue invokes the
\* handler of the request with it
WorkerReplied(k) ==
  /\ eng.pc = "replied"
  /\ Waiting # {} /\ k = Oldest
  /\ page' = analyzeEmailHandler(page, k, inferenceAnswer(NoPort, Null, eng.reply))
  /\ eng' = [engInit EXCEPT !.kv = eng.kv]
  /\ UNCHANGED <<sysvars, cr, store, cfg, wctx>>

\* ------------------- worker proxy: sizing the model from the probe
\* popup.ts 208: memory per token, in ten-thousandths of a MB (0.0978 MB)
tokenMemoryCostMB == 978

\* what the 'getSystemInfo' request resolves with: nothing (the response is
\* undefined), or the available memory in MB
NoInfo == [answered |-> FALSE, availableRAMMB |-> 0]

\* available memory the probe can report: none at all, far too little, just
\* below the requirement, every value from the requirement up to where the
\* context stops growing, and large machines
AvailableLevels ==
  {0, 1, 2048, totalRequiredMB - 1} \cup (totalRequiredMB..4500) \cup {8192, 16384}

SystemInfos == {NoInfo} \cup {[answered |-> TRUE, availableRAMMB |-> v] : v \in AvailableLevels}

\* popup.ts 185: systemInfo?.availableRAMMB || 4096
availableRAMMB(systemInfo) ==
  IF ~systemInfo.answered \/ systemInfo.availableRAMMB = 0
  THEN 4096
  ELSE systemInfo.availableRAMMB

\* a getMemoryAlignedValue that rounds up to the alignment
getMemoryAlignedValueUp(value) == ((value + 255) \div 256) * 256

\* popup.ts 167-170
getMemoryAlignedValue(value) == (value \div 256) * 256

\* popup.ts 211: Math.floor(((availableRAMMB - safetyMarginMB) -
\* baseModelSizeMB) / tokenMemoryCostMB).  The quotient is computed exactly;
\* the double division differs from it by less than one token only where
\* the quotient is a multiple of 5000, which is no multiple of 256 below the
\* upper limit, so the aligned value is the same.
calculatedCtx(available) ==
  (((available - safetyMarginMB) - baseModelSizeMB) * 10000) \div tokenMemoryCostMB

\* popup.ts 214
alignedCtx(available) == getMemoryAlignedValue(calculatedCtx(available))

Max(a, b) == IF a >= b THEN a ELSE b
Min(a, b) == IF a <= b THEN a ELSE b

\* popup.ts 215
constrainedCtx(available) == Max(2048, Min(alignedCtx(available), 9984))

NoReport == [type |-> "none", requiredRAMMB |-> 0, availableRAMMB |-> 0]

\* popup.ts 125-129 and 231-257: one initializeWllama call of a fresh
\* document.  pc is the await it is suspended at (probe: getSystemInfo,
\* report: the 'insufficientResources' message, load: loadModelFromUrl), or
\* idle, loaded, failed.
\*   systemInfo  what the probe resolved with
\*   report      the 'insufficientResources' message sent, or NoReport
\*   n_ctx       n_ctx of the model configuration, 0 for none
\*   loads       calls of loadModelFromUrl
cfgInit ==
  [pc |-> "idle", systemInfo |-> NoInfo, report |-> NoReport, n_ctx |-> 0, loads |-> 0]

\* popup.ts 430-436 and 231-257: 'initialize' arrives at a fresh document
InitializeMessage ==
  /\ cfg.pc \in {"idle", "loaded", "failed"}
  /\ cfg' = [cfgInit EXCEPT !.pc = "probe"]
  /\ UNCHANGED <<sysvars, eng, page, cr, store, wctx>>

\* popup.ts 184-223 and 257-273: getOptimalModelConfig resumes with the
\* probe's answer; with a configuration, loadModelFromUrl is called
SystemInfoSettles(systemInfo) ==
  /\ cfg.pc = "probe"
  /\ LET available == availableRAMMB(systemInfo) IN
     cfg' = IF available < totalRequiredMB
            THEN [cfg EXCEPT !.pc = "report",
                             !.systemInfo = systemInfo,
                             !.report = [type |-> "insufficientResources",
                                         requiredRAMMB |-> totalRequiredMB,
                                         availableRAMMB |-> available]]
            ELSE [cfg EXCEPT !.pc = "load",
                             !.systemInfo = systemInfo,
                             !.n_ctx = constrainedCtx(available),
                             !.loads = @ + 1]
  /\ UNCHANGED <<sysvars, eng, page, cr, store, wctx>>

\* popup.ts 199-204 and 259-262: the report was sent; the null
\* configuration is thrown as an error
InsufficientReportSettles ==
  /\ cfg.pc = "report"
  /\ cfg' = [cfg EXCEPT !.pc = "failed"]
  /\ UNCHANGED <<sysvars, eng, page, cr, store, wctx>>

\* popup.ts 273-307: loadModelFromUrl settled
LoadModelSettles(ok) ==
  /\ cfg.pc = "load"
  /\ cfg' = [cfg EXCEPT !.pc = IF ok THEN "loaded" ELSE "failed"]
  /\ UNCHANGED <<sysvars, eng, page, cr, store, wctx>>

\* --------------- worker proxy: several 'initialize' messages, one document
\* 'initialize' messages one document receives in a run
MaxInitializes == 3

Initializers == 1..MaxInitializes

\* popup.ts 124-127 for one document (one worker context).
\*   isModelLoaded   the module-level flag
\*   loadingPromise  null, or the state of the promise created at 243
\*   body            where the promise's executor is suspended (probe:
\*                   getSystemInfo, report: the 'insufficientResources'
\*                   message, load: loadModelFromUrl), none before it was
\*                   created, done once it settled
\*   call            per 'initialize' message, where its initializeWllama
\*                   call is: none (not arrived), own (awaiting the promise
\*                   it created, 288), join (awaiting the pending promise,
\*                   237), count (awaiting getTokenCount, 290), resolved or
\*                   rejected (the call's promise settled, 433-434)
\*   loads           calls of loadModelFromUrl so far
\*   sent            'modelLoaded' and 'modelLoadError' messages sent
\*   how             observer: the branch each call took on entry
wctxInit ==
  [isModelLoaded |-> FALSE, loadingPromise |-> "null", body |-> "none",
   call |-> [i \in Initializers |-> "none"], loads |-> 0, sent |-> <<>>,
   how |-> [i \in Initializers |-> "none"]]

\* an initializeWllama without the test of loadingPromise
initializeWllamaNoJoin(w, i) ==
  IF w.isModelLoaded
  THEN [w EXCEPT !.call[i] = "resolved", !.how[i] = "returned"]
  ELSE [w EXCEPT !.loadingPromise = "pending", !.body = "probe",
                 !.call[i] = "own", !.how[i] = "started"]

\* popup.ts 231-257: initializeWllama up to its first await
initializeWllamaCall(w, i) ==
  IF w.isModelLoaded
  THEN [w EXCEPT !.call[i] = "resolved", !.how[i] = "returned"]
  ELSE IF w.loadingPromise = "pending"
  THEN [w EXCEPT !.call[i] = "join", !.how[i] = "joined"]
  ELSE IF w.loadingPromise = "fulfilled"
  THEN [w EXCEPT !.call[i] = "resolved", !.how[i] = "joined"]
  ELSE IF w.loadingPromise = "rejected"
  THEN [w EXCEPT !.call[i] = "rejected", !.how[i] = "joined"]
  ELSE [w EXCEPT !.loadingPromise = "pending", !.body = "probe",
                 !.call[i] = "own", !.how[i] = "started"]

\* popup.ts 430-436: an 'initialize' message arrives
InitializeArrives(i) ==
  /\ wctx.call[i] = "none"
  /\ wctx' = initializeWllamaCall(wctx, i)
  /\ UNCHANGED <<sysvars, eng, page, cr, store, cfg>>

\* popup.ts 237-238, 288-290, 298-307: loadingPromise settles and the calls
\* awaiting it resume, in the same task: the call that created it sets
\* isModelLoaded and awaits getTokenCount, or reports the error and returns;
\* a call that joined returns, or throws the rejection
loadingPromiseSettles(w, ok) ==
  [w EXCEPT !.loadingPromise = IF ok THEN "fulfilled" ELSE "rejected",
            !.body = "done",
            !.isModelLoaded = ok,
            !.sent = IF ok THEN @ ELSE Append(@, "modelLoadError"),
            !.call = [i \in Initializers |->
                        CASE @[i] = "own" -> IF ok THEN "count" ELSE "resolved"
                          [] @[i] = "join" -> IF ok THEN "resolved" ELSE "rejected"
                          [] OTHER -> @[i]]]

\* popup.ts 184-205, 257-273: the executor resumes with the probe's answer
\* and calls loadModelFromUrl, or reports insufficient memory
ProbeSettles(available) ==
  /\ wctx.body = "probe"
  /\ wctx' = IF available < totalRequiredMB
             THEN [wctx EXCEPT !.body = "report"]
             ELSE [wctx EXCEPT !.body = "load", !.loads = @ + 1]
  /\ UNCHANGED <<sysvars, eng, page, cr, store, cfg>>

\* popup.ts 199-204, 259-262, 282-285: the report was sent, the executor
\* throws and rejects the promise
ReportSettles ==
  /\ wctx.body = "report"
  /\ wctx' = loadingPromiseSettles(wctx, FALSE)
  /\ UNCHANGED <<sysvars, eng, page, cr, store, cfg>>

\* popup.ts 273-285: loadModelFromUrl settles
LoadModelFromUrlSettles(ok) ==
  /\ wctx.body = "load"
  /\ wctx' = loadingPromiseSettles(wctx, ok)
  /\ UNCHANGED <<sysvars, eng, page, cr, store, cfg>>

\* popup.ts 290-307: getTokenCount(SYSTEM_PROMPT) settles; 'modelLoaded' is
\* sent, or the catch resets isModelLoaded and sends 'modelLoadError'
TokenCountSettles(ok) ==
  /\ \E i \in Initializers : wctx.call[i] = "count"
  /\ wctx' = [wctx EXCEPT !.isModelLoaded = ok,
                          !.sent = Append(@, IF ok THEN "modelLoaded" ELSE "modelLoadError"),
                          !.call = [i \in Initializers |->
                                      IF @[i] = "count" THEN "resolved" ELSE @[i]]]
  /\ UNCHANGED <<sysvars, eng, page, cr, store, cfg>>

\* ------------------------------------ db.ts under a sequence of calls
\* calls of db.ts in one run
MaxCalls == 4

\* results storeAnalyzedEmail is called with
AnalysisResults ==
  {[type |-> "safe", confidence |-> 99], [type |-> "phishing", confidence |-> 50]}

\* db.ts 3-6.
\*   db     the object store: hash -> stored result, NoResult for absent
\*   calls  calls made so far
\*   log    observer: the calls whose promise resolved, in order, each with
\*          how it ended and, for getAnalyzedEmail, the value it resolved with
storeInit ==
  [db |-> [h \in Hashes |-> NoResult], calls |-> 0, log |-> <<>>]

\* the calls that resolved are logged; a rejected promise is not
Logged(log, entry) == IF entry.outcome = "rejected" THEN log ELSE Append(log, entry)

\* db.ts 59-78
StoreCall(h, r, outcome) ==
  /\ store.calls < MaxCalls
  /\ store' = [db |-> storeAnalyzedEmail(store.db, h, r, outcome),
               calls |-> store.calls + 1,
               log |-> Logged(store.log, [op |-> "put", hash |-> h, result |-> r,
                                          outcome |-> outcome])]
  /\ UNCHANGED <<sysvars, eng, page, cr, cfg, wctx>>

\* db.ts 32-56
GetCall(h, outcome) ==
  /\ store.calls < MaxCalls
  /\ store' = [store EXCEPT !.calls = @ + 1,
                            !.log = Logged(@, [op |-> "get", hash |-> h,
                                               result |-> getAnalyzedEmail(store.db, h, outcome),
                                               outcome |-> outcome])]
  /\ UNCHANGED <<sysvars, eng, page, cr, cfg, wctx>>

\* db.ts 81-100
ClearCall(outcome) ==
  /\ store.calls < MaxCalls
  /\ store' = [db |-> clearAnalyzedEmails(store.db, outcome),
               calls |-> store.calls + 1,
               log |-> Logged(store.log, [op |-> "clear", hash |-> NoHash,
                                          result |-> NoResult, outcome |-> outcome])]
  /\ UNCHANGED <<sysvars, eng, page, cr, cfg, wctx>>

\* --------------------- createOffscreenDocument under concurrent calls
\* the calls: the one made when the service worker starts and those of
\* processRequest invocations running side by side
Callers == {1, 2, 3}

\* background.ts 202-203.
\*   pc[i]      where call i is: none (not made), check (awaiting
\*              hasOffscreenDocument), create (awaiting createDocument),
\*              returned, threw
\*   document   an offscreen document exists
\*   initialize 'initialize' messages sent to the existing document
\*   collapsed  observer: calls that returned at the guard
crInit ==
  [offscreenDocumentCreating |-> FALSE, isOffscreenDocumentReady |-> FALSE,
   pc |-> [i \in Callers |-> "none"],
   document |-> FALSE, initialize |-> 0, collapsed |-> {}]

\* a createOffscreenDocument without the offscreenDocumentCreating guard
createOffscreenDocumentUnguarded(i) ==
  /\ cr.pc[i] = "none"
  /\ cr' = [cr EXCEPT !.offscreenDocumentCreating = TRUE, !.pc[i] = "check"]
  /\ UNCHANGED <<sysvars, eng, page, store, cfg, wctx>>

\* background.ts 272-279: call i is made
createOffscreenDocumentCalled(i) ==
  /\ cr.pc[i] = "none"
  /\ cr' = IF cr.offscreenDocumentCreating
           THEN [cr EXCEPT !.pc[i] = "returned", !.collapsed = @ \cup {i}]
           ELSE [cr EXCEPT !.offscreenDocumentCreating = TRUE, !.pc[i] = "check"]
  /\ UNCHANGED <<sysvars, eng, page, store, cfg, wctx>>

\* background.ts 279-292: hasOffscreenDocument settled
ExistenceSettles(i) ==
  /\ cr.pc[i] = "check"
  /\ cr' = IF cr.document
           THEN [cr EXCEPT !.isOffscreenDocumentReady = TRUE,
                           !.offscreenDocumentCreating = FALSE,
                           !.pc[i] = "returned"]
           ELSE [cr EXCEPT !.pc[i] = "create"]
  /\ UNCHANGED <<sysvars, eng, page, store, cfg, wctx>>

\* background.ts 288-305: chrome.offscreen.createDocument settled.  It
\* rejects when a document exists already, and may reject otherwise.
CreateDocumentSettles(i, ok) ==
  /\ cr.pc[i] = "create"
  /\ cr.document => ~ok
  /\ cr' = IF ok
           THEN [cr EXCEPT !.document = TRUE,
                           !.isOffscreenDocumentReady = TRUE,
                           !.initialize = @ + 1,
                           !.offscreenDocumentCreating = FALSE,
                           !.pc[i] = "returned"]
           ELSE [cr EXCEPT !.offscreenDocumentCreating = FALSE, !.pc[i] = "threw"]
  /\ UNCHANGED <<sysvars, eng, page, store, cfg, wctx>>

\* background.ts 308-314: cleanupOffscreenDocument closes the document
CloseDocument ==
  /\ cr.document
  /\ cr' = [cr EXCEPT !.document = FALSE, !.isOffscreenDocumentReady = FALSE,
                      !.initialize = 0]
  /\ UNCHANGED <<sysvars, eng, page, store, cfg, wctx>>

\* -------------------------------------------------------------- Init
\* background.ts 196-214: the orchestrator's module-level state.
\*   cleanupTimer        TRUE iff the handle refers to a pending cleanup
\*                       timeout (the handle of a fired timeout behaves like
\*                       null: clearTimeout on it does nothing)
\*   memoryPollingTimer  TRUE iff the handle refers to an active interval
\*   cleanupTimeouts     cleanup timeouts that are pending
\*   pollIntervals       polling intervals that are active
\*   rearmed             observer: processQueue has armed a cleanup timeout
\*                       in a call that cancelled a pending one
\*   pollStarts          observer: startMemoryPolling calls so far (0, 1, or
\*                       2 for more than one)
\*   pqTimers            pending setTimeout(processQueue, 0) callbacks
\*   active              processRequest invocations that have not settled,
\*                       each at the await it is suspended at
\*   idleCleanup         cleanupOffscreenDocument started by the cleanup timer:
\*                       none, or the await it is suspended at (check:
\*                       hasOffscreenDocument; close: closeDocument, the
\*                       document still there; closed: closeDocument, the
\*                       document gone and the promise not yet settled)
\*   resCleanup          cleanupOffscreenDocument started by 'insufficientResources'
swInit ==
  [isProcessing |-> FALSE, requestsQueue |-> <<>>,
   hasInsufficientResources |-> FALSE, requiredRAMMB |-> Null,
   isOffscreenDocumentReady |-> FALSE, isModelLoaded |-> FALSE,
   offscreenDocumentCreating |-> FALSE,
   cleanupTimer |-> FALSE, memoryPollingTimer |-> FALSE,
   cleanupTimeouts |-> 0, pollIntervals |-> 0, rearmed |-> FALSE,
   pollStarts |-> 0,
   pqTimers |-> 0, active |-> {}, idleCleanup |-> "none", resCleanup |-> "none"]

\* popup.ts (latest variant) 125-129: the worker proxy's state, as one
\* position: fresh (nothing started), probing (awaiting getSystemInfo),
\* reporting (awaiting the reply to 'insufficientResources'), reported,
\* loading (awaiting loadModelFromUrl), loaded (isModelLoaded), failed
\* (loadingPromise rejected; it is never reset).
\*   init  an 'initialize' message is on its way to the document
\*   ctl   the control message on its way to the orchestrator, or NoCtl
offNone == [exists |-> FALSE, state |-> "none", init |-> FALSE, ctl |-> NoCtl]

\* part_006 (latest variant) 105-108, and 165: the initial connection.
\*   port  the generation of the open port object, 0 for null
\*   gen   generations used so far (identity of port objects)
\*   messageHandlers  set of <<requestId, handler>>
\*   pnqTimers  pending setTimeout(processNextQueueItem, 0) callbacks
cqInit ==
  [port |-> 1, gen |-> 1, messageHandlers |-> {}, isProcessingQueue |-> FALSE,
   messageQueue |-> <<>>, pnqTimers |-> 0]

\* ids of handlers and of requests
Ids == 1..(MaxRequests + 1)

\* the observer:
\*   answers[r]   responses the orchestrator posted (delivered) for request r
\*   received     requests the orchestrator received
\*   settled      requests whose processRequest settled
\*   cancelling   requests that arrived while the cleanup timeout was
\*                pending, the worker Ready and no cleanup under way
\*   teardown     fired: the cleanup timeout fired with the worker Ready and
\*                idle; done: that cleanup has ended
\*   polled       flips at every memory-poll sample
\*   recoveredAt  the sample with which the memory poll last cleared
\*                hasInsufficientResources, Null before
\*   disp[r]      the handler request r was posted for, and on which port
\*   posts[c]     handlers in the order their requests were posted
\*   fires[c]     handlers in the order they were invoked
\*   firedWith[h] the responses handler h was invoked with
\*   dropped      handlers that were registered or queued when
\*                clearMessageHandlers was called, each with the number of
\*                times it had been invoked by then
\*   late         requests a response of which arrived when no handler was
\*                registered for it
histInit ==
  [answers |-> [r \in Ids |-> <<>>],
   received |-> {}, settled |-> {}, cancelling |-> {},
   teardown |-> "none", polled |-> FALSE, recoveredAt |-> Null,
   disp |-> [r \in Ids |-> [h |-> 0, port |-> NoPort]],
   posts |-> [c \in Clients |-> <<>>],
   fires |-> [c \in Clients |-> <<>>],
   firedWith |-> [h \in Ids |-> <<>>],
   dropped |-> {}, late |-> {}]

Init ==
  /\ sw = swInit
  /\ off = offNone
  /\ mem \in MemLevels
  /\ cq = [c \in Clients |-> cqInit]
  /\ toBg = {}
  /\ toClient = {}
  /\ openPorts = {<<c, 1>> : c \in Clients}
  /\ gen = [h |-> 0, rid |-> 0, drops |-> 0, budget |-> MaxRequests, invalid |-> FALSE]
  /\ hist = histInit
  /\ eng = engInit
  /\ page = pageInit
  /\ cr = crInit
  /\ store = storeInit
  /\ cfg = cfgInit
  /\ wctx = wctxInit

\* -------------------------------------------- committing one task
Range(q) == {q[i] : i \in 1..Len(q)}

\* port.postMessage throws on a disconnected port; nothing is delivered then
Delivered(out) == {m \in Range(out) : m.port \in openPorts}

RECURSIVE LogAnswers(_, _)
LogAnswers(ans, out) ==
  IF out = <<>> THEN ans
  ELSE LET m == Head(out) IN
       LogAnswers(IF m.port \in openPorts
                  THEN [ans EXCEPT ![m.requestId] = Append(@, m)]
                  ELSE ans,
                  Tail(out))

\* the orchestrator task ended in ctx; o is the offscreen state it leaves
Commit(ctx, o) ==
  /\ sw' = ctx.s
  /\ off' = IF ctx.ini THEN [o EXCEPT !.init = TRUE] ELSE o
  /\ toClient' = toClient \cup Delivered(ctx.out)
  /\ hist' = [hist EXCEPT !.answers = LogAnswers(@, ctx.out),
                          !.settled = @ \cup ctx.done,
                          !.teardown = IF sw.idleCleanup # "none" /\ ctx.s.idleCleanup = "none"
                                       THEN (IF @ = "fired" THEN "done" ELSE "none")
                                       ELSE @]

\* the worker is Ready: the document exists with its model loaded, and the
\* orchestrator's flags say so
WorkerReady ==
  /\ off.exists /\ off.state = "loaded"
  /\ sw.isOffscreenDocumentReady /\ sw.isModelLoaded

\* --------------------------------------------- orchestrator actions
\* background.ts 555-558: a request arrives on a client port
PortMessage(m) ==
  /\ m \in toBg
  /\ toBg' = toBg \ {m}
  /\ LET c0 == Ctx([sw EXCEPT !.requestsQueue = Append(@, m)])
         c1 == processQueue(c0)
     IN /\ sw' = c1.s
        /\ toClient' = toClient \cup Delivered(c1.out)
        /\ hist' = [hist EXCEPT !.answers = LogAnswers(@, c1.out),
                                !.settled = @ \cup c1.done,
                                !.received = @ \cup {m.requestId},
                                !.cancelling =
                                   IF sw.cleanupTimer /\ WorkerReady /\ sw.idleCleanup = "none"
                                   THEN @ \cup {m.requestId} ELSE @]
  /\ UNCHANGED <<off, mem, cq, openPorts, gen, eng, page, cr, store, cfg, wctx>>

\* background.ts 340: the setTimeout(processQueue, 0) callback
ProcessQueueTimer ==
  /\ sw.pqTimers > 0
  /\ Commit(processQueue(Ctx([sw EXCEPT !.pqTimers = @ - 1])), off)
  /\ UNCHANGED <<mem, cq, toBg, openPorts, gen, eng, page, cr, store, cfg, wctx>>

\* background.ts 279-285: createOffscreenDocument resumes after hasOffscreenDocument
CreateChecked(a) ==
  /\ a \in sw.active /\ a.pc = "crCheck"
  /\ IF off.exists
     THEN Commit(AfterCreate(Ctx([sw EXCEPT !.isOffscreenDocumentReady = TRUE,
                                            !.offscreenDocumentCreating = FALSE]), a),
                 off)
     ELSE Commit(Ctx([sw EXCEPT !.active = SetPc(@, a, "crCreate")]), off)
  /\ UNCHANGED <<mem, cq, toBg, openPorts, gen, eng, page, cr, store, cfg, wctx>>

\* background.ts 288-305 and 402-404: chrome.offscreen.createDocument settles.
\* It rejects when a document already exists, and may reject otherwise.
CreateDone(a, ok) ==
  /\ a \in sw.active /\ a.pc = "crCreate"
  /\ off.exists => ~ok
  /\ IF ok
     THEN Commit([AfterCreate(Ctx([sw EXCEPT !.isOffscreenDocumentReady = TRUE,
                                             !.offscreenDocumentCreating = FALSE]), a)
                    EXCEPT !.ini = TRUE],
                 [exists |-> TRUE, state |-> "fresh", init |-> FALSE, ctl |-> NoCtl])
     ELSE Commit(Settle(Ctx([sw EXCEPT !.offscreenDocumentCreating = FALSE]), a,
                        sendErrorResponse(a.port, a.requestId)),
                 off)
  /\ UNCHANGED <<mem, cq, toBg, openPorts, gen, eng, page, cr, store, cfg, wctx>>

\* background.ts 365-370: the 100 ms interval finds its condition true
WaitTick(a) ==
  /\ a \in sw.active /\ a.pc = "waitModel"
  /\ sw.isModelLoaded \/ sw.hasInsufficientResources
  /\ Commit(AfterWait(Ctx(sw), a), off)
  /\ UNCHANGED <<mem, cq, toBg, openPorts, gen, eng, page, cr, store, cfg, wctx>>

\* background.ts 387-404: the 'inference' sendMessage settles.  With no
\* document it rejects; a proxy without a loaded model answers success=false
\* (popup.ts 332-334, 438-452); a loaded one answers either way.
InferenceReturns(a, ok, result) ==
  /\ a \in sw.active /\ a.pc = "inference"
  /\ ok => (off.exists /\ off.state = "loaded")
  /\ Commit(Settle(Ctx(sw), a,
                   IF ok THEN completionResponse(a.port, a.requestId, result)
                   ELSE sendErrorResponse(a.port, a.requestId)),
            off)
  /\ UNCHANGED <<mem, cq, toBg, openPorts, gen, eng, page, cr, store, cfg, wctx>>

\* a short step is pending: it ends before any 5 s or 60 s timer fires
ShortStepDue ==
  \/ sw.pqTimers > 0
  \/ \E a \in sw.active :
       \/ a.pc = "waitModel" /\ (sw.isModelLoaded \/ sw.hasInsufficientResources)
       \/ a.pc \in {"crCheck", "crCreate"}
  \/ sw.idleCleanup # "none" \/ sw.resCleanup # "none"
  \/ off.init \/ off.ctl # NoCtl
  \/ off.state \in {"probing", "reporting", "reported"}

\* the worker is Ready and idle: model loaded, nothing queued or in flight
IdleReady ==
  /\ sw.isOffscreenDocumentReady /\ sw.isModelLoaded
  /\ sw.requestsQueue = <<>> /\ sw.active = {}

\* background.ts 325 and 308: the cleanup timeout fires
CleanupTimerFires ==
  /\ sw.cleanupTimer
  /\ ~ShortStepDue
  /\ sw' = [sw EXCEPT !.cleanupTimer = FALSE, !.cleanupTimeouts = @ - 1,
                      !.idleCleanup = "check"]
  /\ hist' = [hist EXCEPT !.teardown = IF IdleReady THEN "fired" ELSE "none"]
  /\ UNCHANGED <<off, mem, cq, toBg, toClient, openPorts, gen, eng, page, cr, store, cfg, wctx>>

\* the state cleanupOffscreenDocument of the given origin is suspended in
CleanupPc(kind) == IF kind = "idle" THEN sw.idleCleanup ELSE sw.resCleanup

SetCleanupPc(s, kind, pc) ==
  IF kind = "idle" THEN [s EXCEPT !.idleCleanup = pc] ELSE [s EXCEPT !.resCleanup = pc]

\* background.ts 451-454: the .then of the cleanup started by 'insufficientResources'
CleanupEnds(s, kind) ==
  IF kind = "res" THEN startMemoryPolling(Ctx(SetCleanupPc(s, kind, "none")))
  ELSE Ctx(SetCleanupPc(s, kind, "none"))

\* background.ts 309: cleanupOffscreenDocument resumes after hasOffscreenDocument
CleanupChecked(kind) ==
  /\ CleanupPc(kind) = "check"
  /\ IF off.exists
     THEN Commit(Ctx(SetCleanupPc(sw, kind, "close")), off)
     ELSE Commit(CleanupEnds(sw, kind), off)
  /\ UNCHANGED <<mem, cq, toBg, openPorts, gen, eng, page, cr, store, cfg, wctx>>

\* background.ts 311: the browser closes the document for a closeDocument
\* call; the promise settles in a later task of the orchestrator
DocumentCloses(kind) ==
  /\ CleanupPc(kind) = "close"
  /\ off.exists
  /\ Commit(Ctx(SetCleanupPc(sw, kind, "closed")), offNone)
  /\ UNCHANGED <<mem, cq, toBg, openPorts, gen, eng, page, cr, store, cfg, wctx>>

\* a cleanup that leaves isModelLoaded set
cleanupKeepsModelLoaded(kind) ==
  /\ CleanupPc(kind) \in {"close", "closed"}
  /\ IF off.exists \/ CleanupPc(kind) = "closed"
     THEN Commit(CleanupEnds([sw EXCEPT !.isOffscreenDocumentReady = FALSE], kind),
                 IF off.exists /\ CleanupPc(kind) = "close" THEN offNone ELSE off)
     ELSE Commit(Ctx(SetCleanupPc(sw, kind, "none")), off)
  /\ UNCHANGED <<mem, cq, toBg, openPorts, gen, eng, page, cr, store, cfg, wctx>>

\* background.ts 311-313: closeDocument settles, the document having been
\* closed in an earlier step or being closed just now.  With no document
\* left when it was called it rejects, and neither the flags nor the .then
\* are reached.
cleanupOffscreenDocument(kind) ==
  /\ CleanupPc(kind) \in {"close", "closed"}
  /\ IF off.exists \/ CleanupPc(kind) = "closed"
     THEN Commit(CleanupEnds([sw EXCEPT !.isOffscreenDocumentReady = FALSE,
                                        !.isModelLoaded = FALSE], kind),
                 IF off.exists /\ CleanupPc(kind) = "close" THEN offNone ELSE off)
     ELSE Commit(Ctx(SetCleanupPc(sw, kind, "none")), off)
  /\ UNCHANGED <<mem, cq, toBg, openPorts, gen, eng, page, cr, store, cfg, wctx>>

\* a 'modelLoaded' handler that sets hasInsufficientResources where the
\* code clears it
ControlMessageSetsBoth ==
  /\ off.ctl # NoCtl
  /\ LET o == [off EXCEPT !.ctl = NoCtl] IN
     CASE off.ctl.type = "modelLoaded" ->
            Commit(processQueue(Ctx([sw EXCEPT !.isModelLoaded = TRUE,
                                               !.hasInsufficientResources = TRUE])),
                   o)
       [] off.ctl.type = "insufficientResources" ->
            Commit(processQueue(Ctx([sw EXCEPT !.hasInsufficientResources = TRUE,
                                               !.requiredRAMMB = off.ctl.requiredRAMMB,
                                               !.isModelLoaded = FALSE,
                                               !.resCleanup = "check"])),
                   [o EXCEPT !.state = "reported"])
       [] off.ctl.type = "modelLoadError" ->
            Commit(Ctx([sw EXCEPT !.isModelLoaded = FALSE]), o)
  /\ UNCHANGED <<mem, cq, toBg, openPorts, gen, eng, page, cr, store, cfg, wctx>>

\* background.ts 432-466: a control message of the worker proxy arrives
ControlMessage ==
  /\ off.ctl # NoCtl
  /\ LET o == [off EXCEPT !.ctl = NoCtl] IN
     CASE off.ctl.type = "modelLoaded" ->
            Commit(processQueue(Ctx([sw EXCEPT !.isModelLoaded = TRUE,
                                               !.hasInsufficientResources = FALSE])),
                   o)
       [] off.ctl.type = "insufficientResources" ->
            Commit(processQueue(Ctx([sw EXCEPT !.hasInsufficientResources = TRUE,
                                               !.requiredRAMMB = off.ctl.requiredRAMMB,
                                               !.isModelLoaded = FALSE,
                                               !.resCleanup = "check"])),
                   [o EXCEPT !.state = "reported"])
       [] off.ctl.type = "modelLoadError" ->
            Commit(Ctx([sw EXCEPT !.isModelLoaded = FALSE]), o)
  /\ UNCHANGED <<mem, cq, toBg, openPorts, gen, eng, page, cr, store, cfg, wctx>>

\* a polling callback that wants more than the required memory
MemoryPollStrict(ctx, currentAvailableRAMMB) ==
  IF ctx.s.requiredRAMMB = Null \/ currentAvailableRAMMB > ctx.s.requiredRAMMB
  THEN LET c1 == stopMemoryPolling([ctx EXCEPT !.s.hasInsufficientResources = FALSE])
       IN IF c1.s.requestsQueue # <<>> THEN processQueue(c1) ELSE c1
  ELSE ctx

\* background.ts 517-532: the polling callback, given the sample
MemoryPoll(ctx, currentAvailableRAMMB) ==
  IF ctx.s.requiredRAMMB = Null \/ currentAvailableRAMMB >= ctx.s.requiredRAMMB
  THEN LET c1 == stopMemoryPolling([ctx EXCEPT !.s.hasInsufficientResources = FALSE])
       IN IF c1.s.requestsQueue # <<>> THEN processQueue(c1) ELSE c1
  ELSE ctx

\* background.ts 515-536: the polling callback resumes after getInfo
MemoryPollTick ==
  /\ sw.memoryPollingTimer
  /\ ~ShortStepDue
  /\ LET c9 == MemoryPoll(Ctx(sw), mem) IN
     /\ sw' = c9.s
     /\ toClient' = toClient \cup Delivered(c9.out)
     /\ hist' = [hist EXCEPT !.answers = LogAnswers(@, c9.out),
                             !.settled = @ \cup c9.done,
                             !.polled = ~@,
                             !.recoveredAt =
                               IF sw.hasInsufficientResources /\ ~c9.s.hasInsufficientResources
                               THEN mem ELSE @]
  /\ UNCHANGED <<off, mem, cq, toBg, openPorts, gen, eng, page, cr, store, cfg, wctx>>

\* ------------------------------------------------ worker proxy actions
\* popup.ts 430-436 and 231-257: 'initialize' arrives
initializeWllama ==
  /\ off.init /\ off.exists
  /\ off' = [off EXCEPT !.init = FALSE,
                        !.state = IF @ = "fresh" THEN "probing" ELSE @]
  /\ UNCHANGED <<sw, mem, cq, toBg, toClient, openPorts, gen, hist, eng, page, cr, store, cfg, wctx>>

\* a getOptimalModelConfig that also refuses at exactly the requirement
getOptimalModelConfigInclusive ==
  /\ off.exists /\ off.state = "probing" /\ off.ctl = NoCtl
  /\ off' = IF mem <= totalRequiredMB
            THEN [off EXCEPT !.state = "reporting",
                             !.ctl = [type |-> "insufficientResources",
                                      requiredRAMMB |-> totalRequiredMB]]
            ELSE [off EXCEPT !.state = "loading"]
  /\ UNCHANGED <<sw, mem, cq, toBg, toClient, openPorts, gen, hist, eng, page, cr, store, cfg, wctx>>

\* popup.ts 175-205 and 257-273: getOptimalModelConfig resumes with the probe
getOptimalModelConfig ==
  /\ off.exists /\ off.state = "probing" /\ off.ctl = NoCtl
  /\ off' = IF mem < totalRequiredMB
            THEN [off EXCEPT !.state = "reporting",
                             !.ctl = [type |-> "insufficientResources",
                                      requiredRAMMB |-> totalRequiredMB]]
            ELSE [off EXCEPT !.state = "loading"]
  /\ UNCHANGED <<sw, mem, cq, toBg, toClient, openPorts, gen, hist, eng, page, cr, store, cfg, wctx>>

\* popup.ts 259-262, 282-285, 298-307: the null config is thrown as an
\* error and reported as 'modelLoadError'
ReportLoadError ==
  /\ off.exists /\ off.state = "reported" /\ off.ctl = NoCtl
  /\ off' = [off EXCEPT !.state = "failed",
                        !.ctl = [type |-> "modelLoadError", requiredRAMMB |-> Null]]
  /\ UNCHANGED <<sw, mem, cq, toBg, toClient, openPorts, gen, hist, eng, page, cr, store, cfg, wctx>>

\* popup.ts 273-307: loadModelFromUrl settles
LoadSettles(ok) ==
  /\ off.exists /\ off.state = "loading" /\ off.ctl = NoCtl
  /\ off' = IF ok
            THEN [off EXCEPT !.state = "loaded",
                             !.ctl = [type |-> "modelLoaded", requiredRAMMB |-> Null]]
            ELSE [off EXCEPT !.state = "failed",
                             !.ctl = [type |-> "modelLoadError", requiredRAMMB |-> Null]]
  /\ UNCHANGED <<sw, mem, cq, toBg, toClient, openPorts, gen, hist, eng, page, cr, store, cfg, wctx>>

\* the environment: available memory changes.  It is read only by the probe
\* of getOptimalModelConfig and by the memory poll, so a change is taken
\* into account only when one of them is about to read it.
MemChange ==
  /\ (off.exists /\ off.state = "probing") \/ sw.memoryPollingTimer
  /\ mem' \in MemLevels \ {mem}
  /\ UNCHANGED <<sw, off, cq, toBg, toClient, openPorts, gen, hist, eng, page, cr, store, cfg, wctx>>

\* ------------------------------------------- Client Request Queue
\* A client context threads one queue's state through one task:
\*   q       the queue's module-level state
\*   rid     request ids generated so far
\*   posts   requests posted on the port (each with the handler it is for)
\*   fires   handler invocations, [h, response], in order
\*   opened  port objects created by chrome.runtime.connect
\*   threw   an exception is propagating
CCtx(q, rid) ==
  [q |-> q, rid |-> rid, posts |-> <<>>, fires |-> <<>>, opened |-> {}, threw |-> FALSE]

\* part_006 110-113: chrome.runtime.connect returns a new port object, or
\* throws once the extension context is invalidated (it never returns
\* nothing, so the branch at 193-203 is not taken)
connectToServiceWorker(x, c) ==
  IF x.q.port # 0 THEN x
  ELSE IF gen.invalid THEN [x EXCEPT !.threw = TRUE]
  ELSE [x EXCEPT !.q.gen = @ + 1, !.q.port = x.q.gen + 1,
                 !.opened = @ \cup {<<c, x.q.gen + 1>>}]

\* a catch block that does not schedule the next item
dispatchCatchNoTimer(x, handler) ==
  [x EXCEPT !.threw = FALSE,
            !.fires = Append(@, [h |-> handler, response |-> processingError]),
            !.q.isProcessingQueue = FALSE]

\* part_006 219-232: the catch block of processNextQueueItem
dispatchCatch(x, handler) ==
  [x EXCEPT !.threw = FALSE,
            !.fires = Append(@, [h |-> handler, response |-> processingError]),
            !.q.isProcessingQueue = FALSE,
            !.q.pnqTimers = @ + 1]

\* part_006 167-169: ids are drawn at random; here the next unused one
generateRequestId(x) == x.rid + 1

\* processNextQueueItem without the isProcessingQueue flag
processNextQueueItemUnflagged(x, c) ==
  IF x.q.messageQueue = <<>> THEN x
  ELSE LET handler == Head(x.q.messageQueue)
           x1 == connectToServiceWorker([x EXCEPT !.q.messageQueue = Tail(@)], c)
           requestId == generateRequestId(x1)
           x2 == [x1 EXCEPT !.rid = requestId,
                            !.q.messageHandlers = @ \cup {<<requestId, handler>>}]
           p == <<c, x2.q.port>>
       IN IF x1.threw THEN dispatchCatch(x1, handler)
          ELSE IF p \in openPorts \cup x2.opened
          THEN [x2 EXCEPT !.posts = Append(@, [port |-> p, requestId |-> requestId,
                                                h |-> handler])]
          ELSE dispatchCatch(x2, handler)

\* part_006 182-233
processNextQueueItem(x, c) ==
  IF x.q.messageQueue = <<>> \/ x.q.isProcessingQueue THEN x
  ELSE LET handler == Head(x.q.messageQueue)
           x1 == connectToServiceWorker(
                   [x EXCEPT !.q.isProcessingQueue = TRUE,
                             !.q.messageQueue = Tail(@)], c)
           requestId == generateRequestId(x1)
           x2 == [x1 EXCEPT !.rid = requestId,
                            !.q.messageHandlers = @ \cup {<<requestId, handler>>}]
           p == <<c, x2.q.port>>
       IN IF x1.threw THEN dispatchCatch(x1, handler)
          ELSE IF p \in openPorts \cup x2.opened
          THEN [x2 EXCEPT !.posts = Append(@, [port |-> p, requestId |-> requestId,
                                                h |-> handler])]
          ELSE dispatchCatch(x2, handler)

RECURSIVE LogDisp(_, _)
LogDisp(disp, posts) ==
  IF posts = <<>> THEN disp
  ELSE LogDisp([disp EXCEPT ![Head(posts).requestId] =
                   [h |-> Head(posts).h, port |-> Head(posts).port]], Tail(posts))

RECURSIVE LogFired(_, _)
LogFired(fw, fires) ==
  IF fires = <<>> THEN fw
  ELSE LogFired([fw EXCEPT ![Head(fires).h] = Append(@, Head(fires).response)],
                Tail(fires))

\* the handlers of a sequence of posts or of handler invocations
Handlers(q) == [i \in 1..Len(q) |-> q[i].h]

ToMessage(e) == [port |-> e.port, requestId |-> e.requestId]

\* the client task of queue c ended in x
CCommit(x, c) ==
  /\ cq' = [cq EXCEPT ![c] = x.q]
  /\ toBg' = toBg \cup {ToMessage(e) : e \in Range(x.posts)}
  /\ openPorts' = openPorts \cup x.opened
  /\ hist' = [hist EXCEPT !.disp = LogDisp(@, x.posts),
                          !.posts[c] = @ \o Handlers(x.posts),
                          !.fires[c] = @ \o Handlers(x.fires),
                          !.firedWith = LogFired(@, x.fires)]

\* a sendEmailContent that puts the handler at the front of the queue
sendEmailContentFront(c) ==
  /\ gen.h < gen.budget
  /\ LET handler == gen.h + 1
         x0 == CCtx([cq[c] EXCEPT !.messageQueue = <<handler>> \o @], gen.rid)
         x1 == IF ~x0.q.isProcessingQueue THEN processNextQueueItem(x0, c) ELSE x0
     IN /\ CCommit(x1, c)
        /\ gen' = [gen EXCEPT !.h = handler, !.rid = x1.rid]
  /\ UNCHANGED <<sw, off, mem, toClient, eng, page, cr, store, cfg, wctx>>

\* part_006 235-243
sendEmailContent(c) ==
  /\ gen.h < gen.budget
  /\ LET handler == gen.h + 1
         x0 == CCtx([cq[c] EXCEPT !.messageQueue = Append(@, handler)], gen.rid)
         x1 == IF ~x0.q.isProcessingQueue THEN processNextQueueItem(x0, c) ELSE x0
     IN /\ CCommit(x1, c)
        /\ gen' = [gen EXCEPT !.h = handler, !.rid = x1.rid]
  /\ UNCHANGED <<sw, off, mem, toClient, eng, page, cr, store, cfg, wctx>>

\* part_006 126, 138, 155, 231: the setTimeout(processNextQueueItem, 0) callback
ProcessNextTimer(c) ==
  /\ cq[c].pnqTimers > 0
  /\ LET x1 == processNextQueueItem(CCtx([cq[c] EXCEPT !.pnqTimers = @ - 1], gen.rid), c)
     IN /\ CCommit(x1, c)
        /\ gen' = [gen EXCEPT !.rid = x1.rid]
  /\ UNCHANGED <<sw, off, mem, toClient, eng, page, cr, store, cfg, wctx>>

\* part_006 118, 130: messageHandlers.get(requestId)
getHandler(q, requestId) == {e \in q.messageHandlers : e[1] = requestId}

\* a listener that invokes the handler and leaves it in messageHandlers
onMessageKeepsHandler(c, m) ==
  LET found == getHandler(cq[c], m.requestId) IN
  IF found = {}
  THEN /\ cq' = cq
       /\ hist' = [hist EXCEPT !.late = @ \cup {m.requestId}]
  ELSE LET e == CHOOSE e \in found : TRUE IN
       /\ cq' = [cq EXCEPT ![c].isProcessingQueue = FALSE,
                           ![c].pnqTimers = @ + 1]
       /\ hist' = [hist EXCEPT !.fires[c] = Append(@, e[2]),
                               !.firedWith[e[2]] = Append(@, m)]

\* part_006 115-141: the port.onMessage listener of queue c, called with m
onMessage(c, m) ==
  LET found == getHandler(cq[c], m.requestId) IN
  IF found = {}
  THEN /\ cq' = cq
       /\ hist' = [hist EXCEPT !.late = @ \cup {m.requestId}]
  ELSE LET e == CHOOSE e \in found : TRUE IN
       /\ cq' = [cq EXCEPT ![c].messageHandlers = @ \ found,
                           ![c].isProcessingQueue = FALSE,
                           ![c].pnqTimers = @ + 1]
       /\ hist' = [hist EXCEPT !.fires[c] = Append(@, e[2]),
                               !.firedWith[e[2]] = Append(@, m)]

\* part_006 115-141: a response arrives on the open port
OnMessage(c, m) ==
  /\ m \in toClient
  /\ m.port = <<c, cq[c].port>> /\ m.port \in openPorts
  /\ toClient' = toClient \ {m}
  /\ onMessage(c, m)
  /\ UNCHANGED <<sw, off, mem, toBg, openPorts, gen, eng, page, cr, store, cfg, wctx>>

\* background.ts 346-429, seen from a client queue: processRequest answers
\* request m with one of its responses, on the port and under the id of m;
\* port.postMessage throws when the channel is lost
Answered(m, response) ==
  /\ m \in toBg
  /\ response # processingError
  /\ toBg' = toBg \ {m}
  /\ LET out == <<[response EXCEPT !.port = m.port, !.requestId = m.requestId]>> IN
     /\ toClient' = toClient \cup Delivered(out)
     /\ hist' = [hist EXCEPT !.answers = LogAnswers(@, out),
                             !.received = @ \cup {m.requestId},
                             !.settled = @ \cup {m.requestId}]
  /\ UNCHANGED <<sw, off, mem, cq, openPorts, gen, eng, page, cr, store, cfg, wctx>>

\* the environment: a response arrives on the open port and a second copy
\* of it stays on its way
OnMessageDuplicated(c, m) ==
  /\ m \in toClient
  /\ m.port = <<c, cq[c].port>> /\ m.port \in openPorts
  /\ onMessage(c, m)
  /\ UNCHANGED <<sw, off, mem, toBg, toClient, openPorts, gen, eng, page, cr, store, cfg, wctx>>

\* the environment: the channel of queue c is lost
PortDrops(c) ==
  /\ gen.drops < MaxDrops
  /\ <<c, cq[c].port>> \in openPorts
  /\ openPorts' = openPorts \ {<<c, cq[c].port>>}
  /\ toClient' = {m \in toClient : m.port # <<c, cq[c].port>>}
  /\ gen' = [gen EXCEPT !.drops = @ + 1]
  /\ UNCHANGED <<sw, off, mem, cq, toBg, hist, eng, page, cr, store, cfg, wctx>>

\* an onDisconnect listener that reconnects without scheduling
\* processNextQueueItem
OnDisconnectNoResume(c) ==
  /\ cq[c].port # 0 /\ <<c, cq[c].port>> \notin openPorts
  /\ LET x0 == CCtx([cq[c] EXCEPT !.port = 0, !.isProcessingQueue = FALSE], gen.rid)
         x1 == connectToServiceWorker(x0, c)
     IN CCommit(x1, c)
  /\ UNCHANGED <<sw, off, mem, toClient, gen, eng, page, cr, store, cfg, wctx>>

\* an onDisconnect listener that puts the requests posted on the lost
\* channel back at the front of the queue
OnDisconnectRequeue(c) ==
  /\ cq[c].port # 0 /\ <<c, cq[c].port>> \notin openPorts
  /\ LET lost == cq[c].messageHandlers
         again == IF lost = {} THEN <<>> ELSE <<(CHOOSE e \in lost : TRUE)[2]>>
         x0 == CCtx([cq[c] EXCEPT !.port = 0, !.isProcessingQueue = FALSE,
                                  !.messageHandlers = @ \ lost,
                                  !.messageQueue = again \o @], gen.rid)
         x1 == connectToServiceWorker(x0, c)
     IN CCommit([x1 EXCEPT !.q.pnqTimers = @ + 1], c)
  /\ UNCHANGED <<sw, off, mem, toClient, gen, eng, page, cr, store, cfg, wctx>>

\* part_006 143-161: the onDisconnect listener and attemptReconnect; when
\* chrome.runtime.connect throws, the listener ends there
OnDisconnect(c) ==
  /\ cq[c].port # 0 /\ <<c, cq[c].port>> \notin openPorts
  /\ LET x0 == CCtx([cq[c] EXCEPT !.port = 0, !.isProcessingQueue = FALSE], gen.rid)
         x1 == connectToServiceWorker(x0, c)
     IN CCommit(IF x1.threw THEN x1 ELSE [x1 EXCEPT !.q.pnqTimers = @ + 1], c)
  /\ UNCHANGED <<sw, off, mem, toClient, gen, eng, page, cr, store, cfg, wctx>>

\* the handlers queue q holds: those registered for a posted request and
\* those waiting in messageQueue
Held(q) == {e[2] : e \in q.messageHandlers} \cup Range(q.messageQueue)

\* what the observer notes of the handlers queue q holds
Dropped(q) == {[h |-> h, fired |-> Len(hist.firedWith[h])] : h \in Held(q)}

\* a clearMessageHandlers that forgets the port without disconnecting it
clearMessageHandlersKeepsChannel(c) ==
  /\ gen.drops < MaxDrops
  /\ cq' = [cq EXCEPT ![c].messageHandlers = {}, ![c].messageQueue = <<>>,
                      ![c].isProcessingQueue = FALSE, ![c].port = 0]
  /\ gen' = [gen EXCEPT !.drops = @ + 1]
  /\ hist' = [hist EXCEPT !.dropped = @ \cup Dropped(cq[c])]
  /\ UNCHANGED <<sw, off, mem, toBg, toClient, openPorts, eng, page, cr, store, cfg, wctx>>

\* a clearMessageHandlers that tells every handler it discards, with the
\* response of a failed dispatch
clearMessageHandlersNotifies(c) ==
  /\ gen.drops < MaxDrops
  /\ cq' = [cq EXCEPT ![c].messageHandlers = {}, ![c].messageQueue = <<>>,
                      ![c].isProcessingQueue = FALSE, ![c].port = 0]
  /\ openPorts' = openPorts \ {<<c, cq[c].port>>}
  /\ toClient' = {m \in toClient : m.port # <<c, cq[c].port>>}
  /\ gen' = [gen EXCEPT !.drops = @ + 1]
  /\ hist' = [hist EXCEPT !.dropped = @ \cup Dropped(cq[c]),
                          !.firedWith = [h \in Ids |->
                                           IF h \in Held(cq[c])
                                           THEN Append(@[h], processingError)
                                           ELSE @[h]]]
  /\ UNCHANGED <<sw, off, mem, toBg, eng, page, cr, store, cfg, wctx>>

\* part_006 245-254
clearMessageHandlers(c) ==
  /\ gen.drops < MaxDrops
  /\ cq' = [cq EXCEPT ![c].messageHandlers = {}, ![c].messageQueue = <<>>,
                      ![c].isProcessingQueue = FALSE, ![c].port = 0]
  /\ openPorts' = openPorts \ {<<c, cq[c].port>>}
  /\ toClient' = {m \in toClient : m.port # <<c, cq[c].port>>}
  /\ gen' = [gen EXCEPT !.drops = @ + 1]
  /\ hist' = [hist EXCEPT !.dropped = @ \cup Dropped(cq[c])]
  /\ UNCHANGED <<sw, off, mem, toBg, eng, page, cr, store, cfg, wctx>>

\* ------------------------------------------------------- specification
\* the orchestrator and the worker proxy
Background ==
  \/ \E m \in toBg : PortMessage(m)
  \/ ProcessQueueTimer
  \/ \E a \in sw.active : CreateChecked(a)
  \/ \E a \in sw.active, ok \in BOOLEAN : CreateDone(a, ok)
  \/ \E a \in sw.active : WaitTick(a)
  \/ \E a \in sw.active, ok \in BOOLEAN, result \in Results : InferenceReturns(a, ok, result)
  \/ CleanupTimerFires
  \/ \E kind \in {"idle", "res"} : CleanupChecked(kind)
  \/ \E kind \in {"idle", "res"} : DocumentCloses(kind)
  \/ \E kind \in {"idle", "res"} : cleanupOffscreenDocument(kind)
  \/ ControlMessage
  \/ MemoryPollTick
  \/ initializeWllama
  \/ getOptimalModelConfig
  \/ ReportLoadError
  \/ \E ok \in BOOLEAN : LoadSettles(ok)

\* the client queues in CS, their channels staying open
Queues(CS) ==
  \/ \E c \in CS : sendEmailContent(c)
  \/ \E c \in CS : ProcessNextTimer(c)
  \/ \E c \in CS, m \in toClient : OnMessage(c, m)

\* the environment: the extension is reloaded or updated.  Every channel
\* of the pages is lost and chrome.runtime.connect throws from then on.
ContextInvalidated ==
  /\ ~gen.invalid
  /\ gen' = [gen EXCEPT !.invalid = TRUE]
  /\ openPorts' = {}
  /\ toClient' = {}
  /\ UNCHANGED <<sw, off, mem, cq, toBg, hist, eng, page, cr, store, cfg, wctx>>

\* channel loss and queue teardown for the client queues in CS
Channels(CS) ==
  \/ \E c \in CS : PortDrops(c)
  \/ \E c \in CS : OnDisconnect(c)
  \/ \E c \in CS : clearMessageHandlers(c)

\* the steps the code takes by itself: every step but a submission, a change
\* of the available memory, a channel loss and a queue teardown
CodeStep ==
  \/ Background
  \/ \E c \in Clients : ProcessNextTimer(c)
  \/ \E c \in Clients, m \in toClient : OnMessage(c, m)
  \/ \E c \in Clients : OnDisconnect(c)

\* every client queue submitting, all channels staying open
Next == Background \/ MemChange \/ Queues(Clients)

Spec == Init /\ [][Next]_vars

\* one client queue, with channel loss and teardown; the available memory
\* stays what it was at the start
NextChan == Background \/ Queues({1}) \/ Channels({1})

SpecChan == Init /\ [][NextChan]_vars

\* one client queue by itself, with all that can happen to it: the
\* orchestrator answers in any of its ways, responses arrive twice, the
\* channel is lost, the queue is torn down and the extension context is
\* invalidated
NextDuplicates ==
  \/ \E m \in toBg, response \in Responses : Answered(m, response)
  \/ Queues({1})
  \/ Channels({1})
  \/ \E m \in toClient : OnMessageDuplicated(1, m)
  \/ ContextInvalidated

SpecDuplicates == Init /\ [][NextDuplicates]_vars

\* one more submission than Spec allows
InitBurst ==
  /\ sw = swInit
  /\ off = offNone
  /\ mem \in MemLevels
  /\ cq = [c \in Clients |-> cqInit]
  /\ toBg = {}
  /\ toClient = {}
  /\ openPorts = {<<c, 1>> : c \in Clients}
  /\ gen = [h |-> 0, rid |-> 0, drops |-> 0, budget |-> MaxRequests + 1,
            invalid |-> FALSE]
  /\ hist = histInit
  /\ eng = engInit
  /\ page = pageInit
  /\ cr = crInit
  /\ store = storeInit
  /\ cfg = cfgInit
  /\ wctx = wctxInit

SpecBurst == InitBurst /\ [][Next]_vars

\* the client queues by themselves: no request is answered, channels are
\* lost and the extension context can be invalidated
NextDispatch ==
  \/ \E c \in Clients : sendEmailContent(c)
  \/ \E c \in Clients : ProcessNextTimer(c)
  \/ \E c \in Clients : PortDrops(c)
  \/ \E c \in Clients : OnDisconnect(c)
  \/ ContextInvalidated

SpecDispatch == InitBurst /\ [][NextDispatch]_vars

\* every client queue submitting, one more submission than Spec allows, the
\* available memory staying what it was at the start
NextOrder == Background \/ Queues(Clients)

SpecOrder == InitBurst /\ [][NextOrder]_vars

\* The event loops run every task that is ready, the browser settles every
\* API call, and the worker proxy's awaits settle: each step of the
\* orchestrator and of the worker proxy that stays possible is taken.
Fairness ==
  /\ WF_vars(\E m \in toBg : PortMessage(m))
  /\ WF_vars(ProcessQueueTimer)
  /\ WF_vars(\E a \in sw.active : CreateChecked(a))
  /\ WF_vars(\E a \in sw.active, ok \in BOOLEAN : CreateDone(a, ok))
  /\ WF_vars(\E a \in sw.active : WaitTick(a))
  /\ WF_vars(\E a \in sw.active, ok \in BOOLEAN, result \in Results :
               InferenceReturns(a, ok, result))
  /\ WF_vars(CleanupTimerFires)
  /\ WF_vars(\E kind \in {"idle", "res"} : CleanupChecked(kind))
  /\ WF_vars(\E kind \in {"idle", "res"} : DocumentCloses(kind))
  /\ WF_vars(\E kind \in {"idle", "res"} : cleanupOffscreenDocument(kind))
  /\ WF_vars(ControlMessage)
  /\ WF_vars(MemoryPollTick)
  /\ WF_vars(initializeWllama)
  /\ WF_vars(getOptimalModelConfig)
  /\ WF_vars(ReportLoadError)
  /\ WF_vars(\E ok \in BOOLEAN : LoadSettles(ok))

\* one client queue, all channels staying open, every ready step taken
NextLive == Background \/ MemChange \/ Queues({1})

SpecLive == Init /\ [][NextLive]_vars /\ Fairness

\* one client queue and one more submission, all channels staying open
SpecOne == InitBurst /\ [][NextLive]_vars

\* the worker proxy answering 'inference' messages, one at a time
NextInference ==
  \/ \E loaded \in BOOLEAN, n_ctx \in ContextSizes, keep \in SystemPromptTokens,
        tokens \in PromptTokens : InferenceMessage(loaded, n_ctx, keep, tokens)
  \/ \E message \in EngineErrors \cup {{}} : TokenizeSettles(message)
  \/ \E message \in EngineErrors \cup {{}} : FormatChatSettles(message)
  \/ \E message \in EngineErrors, grew \in BOOLEAN : CompletionRejects(message, grew)
  \/ \E completion \in Completions : CompletionSettles(completion)

SpecInference == Init /\ [][NextInference]_vars

\* the content script observing the page, its requests answered by the
\* Client Request Queue
NextPage ==
  \/ \E k \in Containers, body \in Bodies : EmailAppears(k, body)
  \/ \E k \in Containers : handleEmailChanges(k)
  \/ \E k \in Containers : HashSettles(k)
  \/ \E k \in Containers, outcome \in DbOutcomes : LookupSettles(k, outcome)
  \/ \E k \in Containers, response \in Responses : HandlerInvoked(k, response)
  \/ \E k \in Containers, outcome \in DbOutcomes : StoreSettles(k, outcome)
  \/ clearCache
  \/ \E outcome \in DbOutcomes : ClearSettles(outcome)

SpecPage == Init /\ [][NextPage]_vars

\* the content script with its requests answered by the worker proxy, the
\* requests to IndexedDB succeeding
NextAnalysis ==
  \/ \E k \in Containers, body \in Bodies : EmailAppears(k, body)
  \/ \E k \in Containers : handleEmailChanges(k)
  \/ \E k \in Containers : HashSettles(k)
  \/ \E k \in Containers : LookupSettles(k, "done")
  \/ \E loaded \in BOOLEAN, n_ctx \in ContextSizes, keep \in SystemPromptTokens,
        tokens \in PromptTokens : InferenceRequested(loaded, n_ctx, keep, tokens)
  \/ \E message \in EngineErrors \cup {{}} : TokenizeSettles(message)
  \/ \E message \in EngineErrors \cup {{}} : FormatChatSettles(message)
  \/ \E message \in EngineErrors, grew \in BOOLEAN : CompletionRejects(message, grew)
  \/ \E completion \in {WellFormed, CutShort, StrayCharacter} : CompletionSettles(completion)
  \/ \E k \in Containers : WorkerReplied(k)
  \/ \E k \in Containers : StoreSettles(k, "done")

SpecAnalysis == Init /\ [][NextAnalysis]_vars

\* the worker proxy initializing, whatever the probe answers
NextConfig ==
  \/ InitializeMessage
  \/ \E systemInfo \in SystemInfos : SystemInfoSettles(systemInfo)
  \/ InsufficientReportSettles
  \/ \E ok \in BOOLEAN : LoadModelSettles(ok)

SpecConfig == Init /\ [][NextConfig]_vars

\* one document's worker proxy receiving 'initialize' again and again
NextInitialize ==
  \/ \E i \in Initializers : InitializeArrives(i)
  \/ \E available \in MemLevels : ProbeSettles(available)
  \/ ReportSettles
  \/ \E ok \in BOOLEAN : LoadModelFromUrlSettles(ok)
  \/ \E ok \in BOOLEAN : TokenCountSettles(ok)

SpecInitialize == Init /\ [][NextInitialize]_vars

\* db.ts called again and again, each call ending in every way it can
NextStore ==
  \/ \E h \in Hashes, r \in AnalysisResults, outcome \in DbOutcomes : StoreCall(h, r, outcome)
  \/ \E h \in Hashes, outcome \in DbOutcomes : GetCall(h, outcome)
  \/ \E outcome \in DbOutcomes : ClearCall(outcome)

SpecStore == Init /\ [][NextStore]_vars

\* createOffscreenDocument called side by side, the document being closed
\* at any time
NextCreate ==
  \/ \E i \in Callers : createOffscreenDocumentCalled(i)
  \/ \E i \in Callers : ExistenceSettles(i)
  \/ \E i \in Callers, ok \in BOOLEAN : CreateDocumentSettles(i, ok)
  \/ CloseDocument

SpecCreate == Init /\ [][NextCreate]_vars

\* ---------------------------------------------------------- properties

\* C1: at most one request is being processed by the orchestrator at any
\* time (isProcessing is set exactly while one is), so at most one
\* 'inference' message is outstanding at the worker
C1_SingleFlight ==
  /\ Cardinality(sw.active) <= 1
  /\ sw.isProcessing <=> sw.active # {}
  /\ Cardinality({a \in sw.active : a.pc = "inference"}) <= 1

\* an 'inference' is outstanding while the other client's request waits
C1_Witness ==
  \E a \in sw.active :
    /\ a.pc = "inference"
    /\ sw.requestsQueue # <<>>
    /\ Head(sw.requestsQueue).port # a.port

\* C2: every request the orchestrator receives is answered exactly once:
\* never twice, and once the code has no step left to take, once
C2_AnsweredExactlyOnce ==
  \A r \in hist.received :
    /\ Len(hist.answers[r]) <= 1
    /\ ~ENABLED CodeStep => Len(hist.answers[r]) = 1

\* C3: whenever processRequest settles, isProcessing is false again and a
\* processQueue call is scheduled; so whenever requests wait and none is
\* being processed, the scheduled processQueue call is ready to run and
\* pulls the head of the queue
C3_LoopSurvives ==
  /\ [][hist.settled' # hist.settled => ~sw'.isProcessing /\ sw'.pqTimers > 0]_vars
  /\ [](sw.requestsQueue # <<>> /\ sw.active = {}
          => ENABLED (/\ ProcessQueueTimer
                      /\ Head(sw.requestsQueue).requestId \in
                           hist'.settled \cup {a.requestId : a \in sw'.active}))

\* a request settled on a port that was closed (its postMessage threw),
\* and the next request waits for the rescheduled processQueue
C3_Witness ==
  /\ \E r \in hist.settled :
       hist.answers[r] = <<>> /\ hist.disp[r].port \notin openPorts
  /\ sw.requestsQueue # <<>>
  /\ ~sw.isProcessing
  /\ sw.pqTimers > 0


\* C4: a response travels on the port its request arrived on and carries
\* that request's id, and the client invokes with it exactly the handler
\* that was registered under that id
C4_Correlation ==
  /\ \A m \in toClient : m.port = hist.disp[m.requestId].port
  /\ \A r \in Ids : \A i \in 1..Len(hist.answers[r]) :
       hist.answers[r][i].port = hist.disp[r].port
  /\ \A h \in Ids : \A i \in 1..Len(hist.firedWith[h]) :
       LET m == hist.firedWith[h][i] IN
       m.requestId # 0 =>
         /\ hist.disp[m.requestId].h = h
         /\ hist.disp[m.requestId].port = m.port

\* both clients' handlers were invoked with the orchestrator's responses
C4_Witness ==
  \A c \in Clients :
    \E i \in 1..Len(hist.fires[c]) :
      \E j \in 1..Len(hist.firedWith[hist.fires[c][i]]) :
        hist.firedWith[hist.fires[c][i]][j].port[1] = c

\* the requests of queue c that were posted and whose handler is registered
\* and has not fired
Outstanding(c) ==
  {r \in Ids : /\ hist.disp[r].h # 0
               /\ hist.disp[r].port[1] = c
               /\ hist.firedWith[hist.disp[r].h] = <<>>
               /\ <<r, hist.disp[r].h>> \in cq[c].messageHandlers}

Increasing(q) == \A i, j \in 1..Len(q) : i < j => q[i] < q[j]

\* C6: a queue posts its requests in the order of the sendEmailContent
\* calls, and the handlers fire in that same order
C6_Fifo ==
  \A c \in Clients : Increasing(hist.posts[c]) /\ Increasing(hist.fires[c])

\* three submissions of one queue, two of them queued together, all fired
C6_Witness ==
  \E c \in Clients : Len(hist.posts[c]) >= 3 /\ Len(hist.fires[c]) >= 3

\* C7: while hasInsufficientResources stays set, every request that settles
\* is answered with the insufficient-resources response (unknown_threat,
\* confidence 0); no creation of the worker is started or in progress while
\* it is set; and only the memory poll clears it
C7_InsufficientResources ==
  /\ [][\A r \in Ids :
          (/\ sw.hasInsufficientResources /\ sw'.hasInsufficientResources
           /\ r \in hist'.settled /\ r \notin hist.settled)
          => hist'.answers[r] = <<sendInsufficientResourcesError(hist.disp[r].port, r)>>]_vars
  /\ [][sw'.offscreenDocumentCreating /\ ~sw.offscreenDocumentCreating
          => ~sw'.hasInsufficientResources]_vars
  /\ [](sw.hasInsufficientResources
          => /\ ~sw.offscreenDocumentCreating
             /\ \A a \in sw.active : a.pc \notin {"crCheck", "crCreate"})
  /\ [][sw.hasInsufficientResources /\ ~sw'.hasInsufficientResources
          => hist'.polled # hist.polled]_vars

\* the flag is set, the request that waited for the model and a later one
\* were both answered with the insufficient-resources response
C7_Witness ==
  /\ sw.hasInsufficientResources
  /\ \E r1, r2 \in Ids :
       /\ r1 # r2
       /\ hist.answers[r1] = <<sendInsufficientResourcesError(hist.disp[r1].port, r1)>>
       /\ hist.answers[r2] = <<sendInsufficientResourcesError(hist.disp[r2].port, r2)>>

\* a request is pulled in this step
Admitted(a) == a \in sw'.active /\ \A b \in sw.active : b.requestId # a.requestId

\* C8: the first memory-poll sample with available >= required clears
\* hasInsufficientResources and stops the polling, leaving the worker
\* Unloaded; a request admitted then goes to the creation of the worker,
\* which is followed by 'initialize'; and the flag is cleared eventually
\* unless the available memory falls below the requirement
C8_Recovery ==
  /\ [][hist'.polled # hist.polled /\ mem >= sw.requiredRAMMB
          => /\ ~sw'.hasInsufficientResources
             /\ ~sw'.memoryPollingTimer
             /\ ~sw'.isOffscreenDocumentReady]_vars
  /\ [][\A a \in sw'.active :
          Admitted(a) /\ ~sw'.hasInsufficientResources /\ ~sw.isOffscreenDocumentReady
          => a.pc = "crCheck" /\ hist'.answers[a.requestId] = <<>>]_vars
  /\ [][off'.exists /\ ~off.exists => off'.init]_vars
  /\ sw.hasInsufficientResources
       ~> (~sw.hasInsufficientResources \/ mem < sw.requiredRAMMB)

\* after a recovery, a request is in the creation of the worker
C8_Witness ==
  /\ sw.requiredRAMMB # Null
  /\ ~sw.hasInsufficientResources /\ ~sw.memoryPollingTimer
  /\ \E a \in sw.active : a.pc = "crCreate"

\* C9: a cleanup timeout that fired with the worker Ready and idle ends, and
\* it ends by closing the document, once, leaving both flags false
C9_IdleTeardown ==
  /\ [][hist.teardown = "fired" /\ hist'.teardown # "fired"
          => /\ hist'.teardown = "done"
             /\ \/ sw.idleCleanup = "close" /\ off.exists
                \/ sw.idleCleanup = "closed"
             /\ ~off'.exists
             /\ ~sw'.isOffscreenDocumentReady /\ ~sw'.isModelLoaded]_vars
  /\ (hist.teardown = "fired") ~> (hist.teardown = "done")

\* the worker was torn down after idling and is Unloaded
C9_Witness ==
  /\ hist.teardown = "done"
  /\ ~off.exists
  /\ ~sw.isOffscreenDocumentReady /\ ~sw.isModelLoaded
  /\ sw.active = {}

\* C10: a request that arrived at a Ready worker while the cleanup timeout
\* was pending (and so cancelled it) is processed with the worker Ready: the
\* document is not closed while the request is in flight
C10_StaysReadyWhileProcessed ==
  \A a \in sw.active : a.requestId \in hist.cancelling => WorkerReady

\* the createCompletion calls of the current processInference call
CompletionAttempts == {i \in 1..Len(eng.attempts) : eng.attempts[i].completion}

\* C11: a request whose prompt token count exceeds the context window minus
\* the tokens reserved for the fixed instructions minus 50 never reaches
\* createCompletion and ends with the type unknown_threat
C11_BudgetShortCircuit ==
  (/\ eng.pc # "idle"
   /\ eng.promptTokens + eng.tokensToKeepForSystemPrompt + 50 > contextSize(eng))
  => /\ CompletionAttempts = {}
     /\ eng.pc = "replied" => eng.reply.result.type = "unknown_threat"

\* C16: a processInference call makes at most two attempts and at most two
\* createCompletion calls; the second attempt is made exactly when the first
\* one threw; and when the second one threw the reply is success=false, which
\* the orchestrator answers with its error response
C16_RetriedOnce ==
  LET n == Len(eng.attempts) IN
  /\ n <= 2 /\ Cardinality(CompletionAttempts) <= 2
  /\ n = 2 <=> (n >= 1 /\ eng.attempts[1].outcome = "threw")
  /\ eng.pc = "replied" =>
       /\ ~eng.reply.success <=> (n = 2 /\ eng.attempts[2].outcome = "threw")
       /\ ~eng.reply.success =>
            inferenceAnswer(NoPort, Null, eng.reply) = sendErrorResponse(NoPort, Null)
       /\ eng.reply.success =>
            inferenceAnswer(NoPort, Null, eng.reply).responseType = "completion"

\* createCompletion rejected twice and the reply is success=false
C16_Witness ==
  /\ eng.pc = "replied"
  /\ CompletionAttempts = {1, 2}
  /\ ~eng.attempts[1].parse /\ ~eng.attempts[2].parse
  /\ eng.attempts[2].outcome = "threw"
  /\ ~eng.reply.success

\* C17: an attempt in which JSON.parse threw ends by throwing (it never
\* returns a result), and a call whose two attempts both failed to parse is
\* answered with responseType error
C17_ParseFailureIsHardError ==
  /\ \A i \in 1..Len(eng.attempts) :
       eng.attempts[i].parse => eng.attempts[i].outcome = "threw"
  /\ (/\ eng.pc = "replied"
      /\ \E i \in 1..Len(eng.attempts) : eng.attempts[i].parse)
     => /\ Len(eng.attempts) = 2
        /\ eng.attempts[2].parse =>
             inferenceAnswer(NoPort, Null, eng.reply).responseType = "error"

\* C12: of the containers showing emails with one fingerprint, at most one
\* is submitted to the Client Request Queue and at most one reaches the
\* engine; a container that is not submitted gets the stored result
C12_OneInvocationPerFingerprint ==
  \A j, k \in Containers :
    (j # k /\ page.hash[j] # NoHash /\ page.hash[j] = page.hash[k])
    => /\ ~(j \in Range(page.sent) /\ k \in Range(page.sent))
       /\ ~(j \in Range(page.invoked) /\ k \in Range(page.invoked))

\* the onDisconnect listener of queue c runs in this step
Reconnects(c) ==
  /\ cq[c].port # 0 /\ <<c, cq[c].port>> \notin openPorts
  /\ cq'[c].port \notin {cq[c].port, 0}

C14_Abandoned ==
  /\ [](\A c \in Clients : \A i, j \in 1..Len(hist.posts[c]) :
          i # j => hist.posts[c][i] # hist.posts[c][j])
  /\ [][\A c \in Clients :
          Reconnects(c)
          => /\ hist'.fires = hist.fires /\ hist'.firedWith = hist.firedWith
             /\ cq'[c].messageHandlers = cq[c].messageHandlers]_vars
  /\ [][\A r \in Ids :
          (/\ hist.disp[r].h # 0
           /\ hist.disp[r].port \notin openPorts
           /\ hist.firedWith[hist.disp[r].h] = <<>>)
          => hist'.firedWith[hist.disp[r].h] = <<>>]_vars

\* the request posted on the lost channel is still registered and
\* unanswered, while the request behind it was posted on the new channel and
\* its handler has fired
C14_Witness ==
  \E r1, r2 \in Ids :
    /\ hist.disp[r1].h # 0 /\ hist.disp[r1].port \notin openPorts
    /\ hist.firedWith[hist.disp[r1].h] = <<>>
    /\ <<r1, hist.disp[r1].h>> \in cq[1].messageHandlers
    /\ hist.disp[r2].h # 0 /\ hist.disp[r2].port \in openPorts
    /\ hist.firedWith[hist.disp[r2].h] # <<>>

\* nothing of the client queues is left to do: no message is on its way,
\* the orchestrator holds no request, no processNextQueueItem callback and
\* no onDisconnect listener is pending
Drained ==
  /\ toBg = {} /\ toClient = {}
  /\ sw.requestsQueue = <<>> /\ sw.active = {}
  /\ \A c \in Clients :
       /\ cq[c].pnqTimers = 0
       /\ cq[c].port = 0 \/ <<c, cq[c].port>> \in openPorts

\* C15: a handler passed to sendEmailContent is never invoked twice, is no
\* longer registered once it was invoked, and has been invoked once nothing
\* is left to do
C15_ExactlyOnceThenDiscarded ==
  \A h \in 1..gen.h :
    /\ Len(hist.firedWith[h]) <= 1
    /\ hist.firedWith[h] # <<>> => \A e \in cq[1].messageHandlers \cup cq[2].messageHandlers : e[2] # h
    /\ Drained => Len(hist.firedWith[h]) = 1

\* C18: with the worker in its load-error state, the code does not come to
\* rest while a request is being processed or waits in requestsQueue: a
\* request admitted after 'modelLoadError' starts a new load and is answered
C18_LoadErrorRetried ==
  (/\ off.exists /\ off.state = "failed" /\ off.ctl = NoCtl
   /\ ~ENABLED CodeStep)
  => sw.active = {} /\ sw.requestsQueue = <<>>

\* C19: at most one createOffscreenDocument call is past the guard, so at
\* most one createDocument is outstanding; and a document that exists has
\* been sent 'initialize' exactly once
C19_CreationCollapses ==
  /\ Cardinality({i \in Callers : cr.pc[i] \in {"check", "create"}}) <= 1
  /\ Cardinality({i \in Callers : cr.pc[i] = "create"}) <= 1
  /\ cr.initialize = IF cr.document THEN 1 ELSE 0
  /\ cr.offscreenDocumentCreating <=> \E i \in Callers : cr.pc[i] \in {"check", "create"}

\* createDocument is outstanding and two other calls returned at the guard
C19_Witness ==
  \E i \in Callers :
    /\ cr.pc[i] = "create"
    /\ cr.collapsed = Callers \ {i}

\* C20: the only channel of a client queue that can be open is the one its
\* port variable refers to, so a queue has at most one open channel
C20_OneChannel ==
  \A c \in Clients :
    /\ \A p \in openPorts : p[1] = c => p[2] = cq[c].port
    /\ Cardinality({p \in openPorts : p[1] = c}) <= 1

\* after a teardown that discarded the handler of the first request, the
\* next request was posted on a channel opened at dispatch time
C20_Witness ==
  /\ hist.disp[1].port = <<1, 1>> /\ hist.firedWith[hist.disp[1].h] = <<>>
  /\ hist.disp[2].port = <<1, 2>>
  /\ cq[1].port = 2 /\ <<1, 2>> \in openPorts
  /\ cq[1].messageHandlers = {<<2, hist.disp[2].h>>}

\* C21: the orchestrator admits requests in arrival order, whatever port
\* they arrived on: an arriving request joins requestsQueue at its tail, the
\* only request ever pulled is the one at its head, and it is pulled only
\* when no request is being processed and every request that arrived before
\* it has been answered
C21_ArrivalOrder ==
  [][LET q == sw.requestsQueue
         arrived == toBg \ toBg'
         qa == IF arrived = {} THEN q ELSE Append(q, CHOOSE m \in arrived : TRUE)
         earlier == hist.received \ {qa[i].requestId : i \in 1..Len(qa)}
     IN \/ sw'.requestsQueue = qa
        \/ /\ qa # <<>>
           /\ sw'.requestsQueue = Tail(qa)
           /\ sw.active = {}
           /\ \A r \in earlier : hist.answers[r] # <<>>
           /\ \/ \E a \in sw'.active : a.requestId = Head(qa).requestId
              \/ Head(qa).requestId \in hist'.settled]_vars

\* a request waits in requestsQueue behind a request of another port that
\* is being processed, after an earlier request of its own port was answered
C21_Witness ==
  /\ Len(sw.requestsQueue) = 1
  /\ \E a \in sw.active : a.port # sw.requestsQueue[1].port
  /\ \E r \in hist.settled :
        /\ hist.answers[r] # <<>>
        /\ hist.disp[r].port = sw.requestsQueue[1].port

\* C22: an entry of the store is written only by the storeAnalyzedEmail of
\* a container whose handler was invoked with a 'completion' response, with
\* the result of that response; a handler invoked with an error response
\* writes nothing; and an entry is removed only when clearAnalyzedEmails
\* empties the whole store
C22_CacheWrites ==
  [][/\ \A h \in Hashes :
          page'.db[h] # page.db[h] =>
            \/ /\ page'.db[h] # NoResult
               /\ \E k \in Containers :
                     /\ page.at[k] = "store" /\ page'.at[k] = "idle"
                     /\ page.hash[k] = h
                     /\ page.response[k] = "completion"
                     /\ page'.db[h] = page.result[k]
            \/ /\ page.clearing /\ ~page'.clearing
               /\ \A g \in Hashes : page'.db[g] = NoResult
     /\ \A k \in Containers :
          page'.response[k] = "error" =>
            /\ page'.at[k] # "store"
            /\ page.response[k] # "error" => page'.db = page.db]_vars

\* a container got an error response and its fingerprint has no entry,
\* while another fingerprint has one
C22_Witness ==
  /\ \E k \in Containers :
        page.response[k] = "error" /\ page.db[page.hash[k]] = NoResult
  /\ \E h \in Hashes : page.db[h] # NoResult

\* what the store holds after the calls of log, the calls that ended in one
\* of the ways in counted having taken effect
RECURSIVE Contents(_, _)
Contents(log, counted) ==
  IF log = <<>> THEN [h \in Hashes |-> NoResult]
  ELSE LET e == log[Len(log)]
           before == Contents(SubSeq(log, 1, Len(log) - 1), counted)
       IN IF e.outcome \notin counted THEN before
          ELSE IF e.op = "put" THEN [before EXCEPT ![e.hash] = e.result]
          ELSE IF e.op = "clear" THEN [h \in Hashes |-> NoResult]
          ELSE before

\* C23 as stated: every getAnalyzedEmail(h) that resolves returns the result
\* of the last storeAnalyzedEmail(h, r) that resolved since the last
\* clearAnalyzedEmails that resolved, and null when there is none
C23_RoundTrip ==
  \A i \in 1..Len(store.log) :
    store.log[i].op = "get" =>
      store.log[i].result =
        Contents(SubSeq(store.log, 1, i - 1), {"done", "unopened"})[store.log[i].hash]

\* C23, amended: every getAnalyzedEmail(h) whose read request succeeded
\* returns the result of the last storeAnalyzedEmail(h, r) whose put request
\* succeeded since the last clearAnalyzedEmails whose clear request
\* succeeded, and null when there is none
C23_RoundTripWhenOpened ==
  \A i \in 1..Len(store.log) :
    (store.log[i].op = "get" /\ store.log[i].outcome = "done") =>
      store.log[i].result =
        Contents(SubSeq(store.log, 1, i - 1), {"done"})[store.log[i].hash]

\* a result was stored and read back, the store was cleared, and the same
\* fingerprint was read as absent
C23_Witness ==
  \E i, j, k \in 1..Len(store.log) :
    /\ i < j /\ j < k
    /\ store.log[i].op = "get" /\ store.log[i].outcome = "done"
    /\ store.log[i].result \in AnalysisResults
    /\ store.log[j].op = "clear" /\ store.log[j].outcome = "done"
    /\ store.log[k].op = "get" /\ store.log[k].outcome = "done"
    /\ store.log[k].hash = store.log[i].hash
    /\ store.log[k].result = NoResult

\* the 'type' values of a response message
Categories == threat \cup {"error"}

\* a response message has a known responseType, a known type and a
\* confidence of at least 0 and below 1
WellTyped(m) ==
  /\ m.responseType \in {"completion", "error"}
  /\ m.type \in Categories
  /\ 0 <= m.confidence /\ m.confidence < 100

\* C24: every response message delivered to a client has responseType
\* 'completion' or 'error', a type of the category set and a confidence in
\* [0, 1): the one the orchestrator posts for the worker's reply, whatever
\* text of the grammar the engine completed, and the synthesized ones
C24_ResponseWellTyped ==
  /\ eng.pc = "replied" => WellTyped(inferenceAnswer(NoPort, Null, eng.reply))
  /\ WellTyped(sendErrorResponse(NoPort, Null))
  /\ WellTyped(sendInsufficientResourcesError(NoPort, Null))
  /\ WellTyped(processingError)

\* C25: clearMessageHandlers empties the queue without invoking a handler,
\* and closes the channel: a handler that was registered or queued when it
\* was called is not invoked by the call nor at any time after it, whether
\* or not the orchestrator answers its request afterwards, and is held by
\* the queue no more; a queue without port and handlers has no open channel
C25_SilentTeardown ==
  /\ \A d \in hist.dropped : Len(hist.firedWith[d.h]) = d.fired
  /\ \A c \in Clients : \A d \in hist.dropped : d.h \notin Held(cq[c])
  /\ \A c \in Clients :
       (cq[c].port = 0 /\ Held(cq[c]) = {}) => \A p \in openPorts : p[1] # c

\* the orchestrator answered the request of a handler after
\* clearMessageHandlers had discarded it and closed its channel (the answer
\* was not delivered), and the handler was not invoked
C25_Witness ==
  \E r \in hist.settled :
    /\ [h |-> hist.disp[r].h, fired |-> 0] \in hist.dropped
    /\ hist.disp[r].port \notin openPorts
    /\ hist.answers[r] = <<>>
    /\ hist.firedWith[hist.disp[r].h] = <<>>

\* C26: when the probe reports less available memory than the requirement,
\* the worker proxy sends 'insufficientResources' with the required and the
\* available figure and does not call loadModelFromUrl in that
\* initialization
C26_InsufficientNeverLoads ==
  (/\ cfg.pc \notin {"idle", "probe"}
   /\ cfg.systemInfo.answered
   /\ cfg.systemInfo.availableRAMMB < totalRequiredMB)
  => /\ cfg.report = [type |-> "insufficientResources",
                      requiredRAMMB |-> totalRequiredMB,
                      availableRAMMB |-> cfg.systemInfo.availableRAMMB]
     /\ cfg.loads = 0
     /\ cfg.pc \in {"report", "failed"}

\* C27: whenever the available memory is at least the requirement, n_ctx
\* is a multiple of 256 between 2048 and 9984; the aligned value is itself
\* at least 2048, so the lower limit raises nothing and n_ctx never needs
\* more memory than is left after the model and the safety margin
C27_ContextSizing ==
  cfg.loads > 0 =>
    LET available == availableRAMMB(cfg.systemInfo) IN
    /\ available >= totalRequiredMB
    /\ cfg.n_ctx % 256 = 0
    /\ 2048 <= cfg.n_ctx /\ cfg.n_ctx <= 9984
    /\ alignedCtx(available) >= 2048
    /\ cfg.n_ctx = Min(alignedCtx(available), 9984)
    /\ cfg.n_ctx * tokenMemoryCostMB
         <= ((available - safetyMarginMB) - baseModelSizeMB) * 10000

\* the model is loaded with exactly the required memory available: the
\* aligned value is 2048 without the lower limit
C27_Witness ==
  /\ cfg.pc = "load"
  /\ cfg.systemInfo.answered
  /\ cfg.systemInfo.availableRAMMB = totalRequiredMB
  /\ calculatedCtx(totalRequiredMB) = 2157
  /\ cfg.n_ctx = 2048

\* C28: once an inference request has been processed, the engine's session
\* state is back at the fixed-instruction prefix, whether the completion
\* succeeded, could not be parsed, or threw
C28_SessionTrimmed ==
  eng.pc = "replied" => eng.kv = "prefix"

\* C29: while a request is at the worker ('inference' sent, its response
\* awaited), no cleanup timeout is pending
C29_NoTeardownTimerDuringInference ==
  \A a \in sw.active : a.pc = "inference" => ~sw.cleanupTimer

\* C30: when a dispatch fails in the Client Request Queue (the channel
\* cannot be opened or posting throws), the handler of that request is
\* invoked with an error response of type unknown_threat and confidence 0,
\* for the first and only time; isProcessingQueue is reset; and a
\* processNextQueueItem call is scheduled, which dispatches the next queued
\* request whenever it runs
C30_FailedDispatch ==
  /\ [][\A c \in Clients : \A h \in Ids :
          (/\ Len(hist'.firedWith[h]) > Len(hist.firedWith[h])
           /\ hist'.fires[c] # hist.fires[c]
           /\ hist'.firedWith[h][Len(hist'.firedWith[h])].requestId = processingError.requestId)
          => /\ hist'.firedWith[h] = <<processingError>>
             /\ processingError.responseType = "error"
             /\ processingError.type = "unknown_threat"
             /\ processingError.confidence = 0
             /\ ~cq'[c].isProcessingQueue
             /\ cq'[c].pnqTimers > 0]_vars
  /\ [](\A c \in Clients :
          (cq[c].pnqTimers > 0 /\ cq[c].messageQueue # <<>> /\ ~cq[c].isProcessingQueue)
          => /\ ENABLED ProcessNextTimer(c)
             /\ LET x == processNextQueueItem(
                            CCtx([cq[c] EXCEPT !.pnqTimers = @ - 1], gen.rid), c)
                IN x.q.messageQueue = Tail(cq[c].messageQueue))
  /\ [](\A h \in Ids :
          (\E i \in 1..Len(hist.firedWith[h]) :
             hist.firedWith[h][i].requestId = processingError.requestId)
          => Len(hist.firedWith[h]) = 1)

\* both kinds of failure happened: a handler got the error response after
\* its post threw (it is still registered), another after the channel could
\* not be opened (the queue has no port), and the queue went on
C30_Witness ==
  \E c \in Clients : \E h1, h2 \in Ids :
    /\ h1 # h2
    /\ hist.firedWith[h1] = <<processingError>>
    /\ hist.firedWith[h2] = <<processingError>>
    /\ h1 \in {e[2] : e \in cq[c].messageHandlers}
    /\ h2 \notin {e[2] : e \in cq[c].messageHandlers}
    /\ h1 \in Range(hist.fires[c]) /\ h2 \in Range(hist.fires[c])
    /\ cq[c].port = 0
    /\ gen.invalid

\* C31: the offscreen document is never closed while a request is at the
\* worker ('inference' sent, its response awaited), however the existence
\* check of the cleanup callback interleaves with the arrival of a request
C31_NeverClosedInFlight ==
  [][(off.exists /\ ~off'.exists) => \A a \in sw.active : a.pc # "inference"]_vars

\* a processRequest invocation sends 'inference' in this step
Forwarded(a) ==
  /\ a \in sw'.active /\ a.pc = "inference"
  /\ a \notin sw.active

\* C32: 'inference' is sent only in a state where isOffscreenDocumentReady
\* and isModelLoaded are true and hasInsufficientResources is false, and
\* the document then exists with its model loaded
C32_ForwardedOnlyWhenLoaded ==
  [][\A a \in sw'.active :
       Forwarded(a)
       => /\ sw'.isOffscreenDocumentReady /\ sw'.isModelLoaded
          /\ ~sw'.hasInsufficientResources
          /\ off'.exists /\ off'.state = "loaded"]_vars

\* C33: hasInsufficientResources and isModelLoaded are never both true
C33_FlagsExclusive ==
  ~(sw.hasInsufficientResources /\ sw.isModelLoaded)

\* the model is loaded after an insufficient-resources episode that the
\* memory poll ended
C33_Witness ==
  /\ sw.isModelLoaded /\ ~sw.hasInsufficientResources
  /\ sw.requiredRAMMB # Null
  /\ hist.polled

\* C34: at most one cleanup timeout is pending and at most one polling
\* interval is active at any time, and each is the one its handle refers to
C34_OneTimerOneInterval ==
  /\ sw.cleanupTimeouts <= 1
  /\ sw.pollIntervals <= 1
  /\ sw.cleanupTimer <=> sw.cleanupTimeouts = 1
  /\ sw.memoryPollingTimer <=> sw.pollIntervals = 1

\* processQueue was called with an empty queue while a cleanup timeout was
\* pending, and one timeout is pending; 'insufficientResources' was reported
\* for the second time and the polling interval it started is active
C34_Witness ==
  /\ sw.rearmed /\ sw.cleanupTimeouts = 1
  /\ sw.pollStarts = 2 /\ sw.pollIntervals = 1

\* C35: no handler passed to sendEmailContent is invoked more than once,
\* whatever the submissions, responses (also those that arrive twice or
\* after their handler was discarded), failed dispatches, channel losses and
\* clearMessageHandlers calls
C35_NeverInvokedTwice ==
  \A h \in Ids : Len(hist.firedWith[h]) <= 1

\* a handler was invoked with the response of its request, a second copy of
\* that response arrived afterwards and found no handler; another handler
\* was invoked by a failed dispatch
C35_Witness ==
  /\ \E r \in hist.late :
       /\ Len(hist.firedWith[hist.disp[r].h]) = 1
       /\ hist.firedWith[hist.disp[r].h][1].requestId = r
  /\ \E h \in Ids : hist.firedWith[h] = <<processingError>>

\* C36: a queue never has more than one handler registered in
\* messageHandlers; handlers of abandoned requests do not accumulate across
\* disconnects
C36_AtMostOneRegistered ==
  \A c \in Clients : Cardinality(cq[c].messageHandlers) <= 1

\* C37: in one worker context loadModelFromUrl is called at most once,
\* however many 'initialize' messages arrive and whenever they arrive: a
\* call that finds the model loaded returns at once, a call that finds the
\* load pending awaits it, and neither starts a load
C37_LoadStartedOnce ==
  [][/\ wctx'.loads <= 1
     /\ \A i \in Initializers :
          (wctx.call[i] = "none" /\ wctx'.call[i] # "none") =>
            /\ wctx.isModelLoaded =>
                 wctx'.call[i] = "resolved" /\ wctx'.body = wctx.body /\ wctx'.loads = wctx.loads
            /\ (~wctx.isModelLoaded /\ wctx.loadingPromise = "pending") =>
                 wctx'.call[i] = "join" /\ wctx'.body = wctx.body /\ wctx'.loads = wctx.loads]_vars

\* three 'initialize' messages: one started the load, one arrived while it
\* was pending and one after the model was loaded; all three calls returned
C37_Witness ==
  /\ wctx.loads = 1
  /\ \E i, j, k \in Initializers :
       /\ wctx.how[i] = "started" /\ wctx.how[j] = "joined" /\ wctx.how[k] = "returned"
       /\ wctx.call[i] = "resolved" /\ wctx.call[j] = "resolved" /\ wctx.call[k] = "resolved"
  /\ wctx.sent = <<"modelLoaded">>

\* the orchestrator polling with the requirement the worker reported
Polling ==
  Ctx([swInit EXCEPT !.hasInsufficientResources = TRUE,
                     !.requiredRAMMB = totalRequiredMB,
                     !.memoryPollingTimer = TRUE,
                     !.pollIntervals = 1])

\* C38: the memory poll clears hasInsufficientResources exactly when the
\* sample is at least the requirement the worker reported, which is the
\* number below which getOptimalModelConfig refuses to load; so a probe that
\* reads the same available memory as the sample that cleared the flag does
\* not report insufficientResources again
C38_SameThreshold ==
  /\ [](sw.requiredRAMMB # Null => sw.requiredRAMMB = totalRequiredMB)
  /\ [][hist'.polled # hist.polled /\ sw.hasInsufficientResources
          => (sw'.hasInsufficientResources <=> mem < sw.requiredRAMMB)]_vars
  /\ [][off.exists /\ off.state = "probing" /\ off'.state = "reporting"
          => mem # hist.recoveredAt]_vars
  /\ [](\A v \in AvailableLevels \ ((totalRequiredMB + 2)..4500) :
          LET cleared == ~MemoryPoll(Polling, v).s.hasInsufficientResources
              refused == availableRAMMB([answered |-> TRUE, availableRAMMB |-> v]) < totalRequiredMB
          IN /\ cleared => ~refused
             /\ v # 0 => (cleared <=> ~refused))

\* the flag was cleared by a sample equal to the requirement, and the worker
\* created afterwards has probed that same amount and is loading the model
C38_Witness ==
  /\ hist.recoveredAt = totalRequiredMB /\ mem = hist.recoveredAt
  /\ ~sw.hasInsufficientResources
  /\ off.exists /\ off.state = "loading"

\* C39: a result attemptInference makes up for a prompt it cannot fit
\* (unknown_threat, confidence 0.5) is the reply of a successful inference
\* and ends the call without a further attempt; the handler of the email is
\* invoked with it as a 'completion' and stores it under the email's
\* fingerprint; and an email with that fingerprint looked up afterwards gets
\* it as its badge from the store, no request being sent for it
C39_LimitedResultCached ==
  /\ [][(eng.pc # "replied" /\ eng'.pc = "replied" /\ eng'.reply.result = TooLongResult)
          => /\ eng'.reply.success
             /\ Len(eng'.attempts) = Len(eng.attempts)
             /\ eng'.attempts[Len(eng'.attempts)].outcome = "returned"
             /\ inferenceAnswer(NoPort, Null, eng'.reply).responseType = "completion"]_vars
  /\ [][\A k \in Containers :
          (/\ page.at[k] = "analyze" /\ page'.at[k] # "analyze"
           /\ eng.pc = "replied" /\ eng.reply.result = TooLongResult)
          => /\ page'.response[k] = "completion"
             /\ page'.result[k] = TooLongResult
             /\ page'.at[k] = "store"]_vars
  /\ [][\A k \in Containers :
          (page.at[k] = "store" /\ page'.at[k] = "idle" /\ page.result[k] = TooLongResult)
          => /\ page'.db[page.hash[k]] = TooLongResult
             /\ page'.badge[k] = TooLongResult]_vars
  /\ [][\A k \in Containers :
          (/\ page.at[k] = "lookup" /\ page'.at[k] # "lookup"
           /\ page.db[page.hash[k]] = TooLongResult)
          => /\ page'.badge[k] = TooLongResult
             /\ page'.at[k] = "idle"
             /\ page'.sent = page.sent]_vars

\* one email was answered with the made-up result as a 'completion', and a
\* second container with the same fingerprint, for which nothing was sent,
\* shows that result from the store
C39_Witness ==
  \E i, j \in Containers :
    /\ i # j
    /\ page.sent = <<i>>
    /\ page.response[i] = "completion" /\ page.result[i] = TooLongResult
    /\ page.hash[j] = page.hash[i]
    /\ page.at[j] = "idle" /\ page.response[j] = "none"
    /\ page.badge[j] = TooLongResult
    /\ page.db[page.hash[j]] = TooLongResult
====
